---- MODULE Spec2Model ----
(***************************************************************************)
(* Print-event shipping agent (Monitoramento1/agent/agente.py).            *)
(*                                                                         *)
(* The model follows class PrintMonitor: the identity encoding, the        *)
(* persisted set of delivered identities (processed_events.json), the      *)
(* catch-up pass (processar_todos_eventos), the polling loop and the final *)
(* drain (monitor_events), and the retrying sender (send_events).          *)
(*                                                                         *)
(* Python strings are sequences of one-character strings, so that          *)
(* f"{machine}_{record_id}", str.split, str.startswith and int() are       *)
(* computed, not assumed.                                                  *)
(***************************************************************************)
EXTENDS Integers, Sequences, FiniteSets, TLC

(***************************************************************************)
(* Bounds of the model.                                                    *)
(***************************************************************************)
\* RecordId values the event source hands out are 1..MaxRecordId
MaxRecordId == 2
\* an EventSource call returns at most MaxFetch raw events
MaxFetch == 2
\* number of shutdown / restart cycles explored
MaxRestarts == 1

(***************************************************************************)
(* Program constants.  The size thresholds of the source are scaled down   *)
(* so that the states in which they take effect are reachable; each keeps  *)
(* its role and its comparison operator.                                   *)
(***************************************************************************)
\* DEFAULT_CONFIG["max_retries"]
max_retries == 3
\* DEFAULT_CONFIG["batch_size"] (50 in the source)
batch_size == 1
\* len(self.eventos_processados) > 50000 in salvar_eventos_processados
PersistLimit == 3
\* eventos[-10000:] in salvar_eventos_processados
KeepPerMachine == 2
\* len(eventos_buffer) > 1000 in monitor_events
BufferLimit == 1
\* eventos_buffer[-500:] in monitor_events
BufferKeep == 1
\* len(self.eventos_processados) > 10000 in monitor_events
CacheLimit == 2
\* self.highest_record_id - 5000 in monitor_events
CacheWindow == 1

(***************************************************************************)
(* Strings.                                                                *)
(***************************************************************************)
DigitChars == <<"0", "1", "2", "3", "4", "5", "6", "7", "8", "9">>

IsDigit(c) == \E i \in 1..10 : DigitChars[i] = c

DigitValue(c) == (CHOOSE i \in 1..10 : DigitChars[i] = c) - 1

\* None, where an integer is expected: a JSON null in the field RecordId
NoneId == -1

\* str(n) for an integer n >= 0, and str(None)
RECURSIVE PyStr(_)
PyStr(n) ==
    IF n = NoneId THEN <<"N", "o", "n", "e">>
    ELSE IF n < 10 THEN << DigitChars[n + 1] >>
    ELSE PyStr(n \div 10) \o << DigitChars[(n % 10) + 1] >>

\* s.startswith(p)
StartsWith(s, p) ==
    /\ Len(p) <= Len(s)
    /\ SubSeq(s, 1, Len(p)) = p

\* '_' in s
HasUnderscore(s) == \E i \in 1..Len(s) : s[i] = "_"

FirstUnderscore(s) == CHOOSE i \in 1..Len(s) : s[i] = "_" /\ \A j \in 1..(i - 1) : s[j] # "_"

\* s.split('_', 1): one part when s holds no '_', else the text before the
\* first '_' and the text after it
Split1(s) ==
    IF HasUnderscore(s)
    THEN << SubSeq(s, 1, FirstUnderscore(s) - 1), SubSeq(s, FirstUnderscore(s) + 1, Len(s)) >>
    ELSE << s >>

\* the characters int() strips from both ends of an ASCII text: space, tab,
\* line feed, vertical tab (written as the character itself), form feed,
\* carriage return; the strings of the model hold ASCII characters only
IsBlank(c) == c \in { " ", "\t", "\n", "", "\f", "\r" }

RECURSIVE StripBlanks(_)
StripBlanks(s) ==
    IF Len(s) > 0 /\ IsBlank(s[1]) THEN StripBlanks(Tail(s))
    ELSE IF Len(s) > 0 /\ IsBlank(s[Len(s)]) THEN StripBlanks(SubSeq(s, 1, Len(s) - 1))
    ELSE s

\* the text int() reads a sign from
HasSign(s) == Len(s) > 0 /\ s[1] \in { "+", "-" }

\* what follows the optional sign
Unsigned(s) == IF HasSign(s) THEN Tail(s) ELSE s

\* sys.get_int_max_str_digits(), the default of the interpreter: int() raises
\* ValueError for a text of more digits, leading zeros counted, underscores
\* not
MaxStrDigits == 4300

\* digits, with single underscores allowed between digits (PEP 515), no
\* more than MaxStrDigits of them
DigitsParse(s) ==
    /\ Len(s) > 0
    /\ Cardinality({ i \in 1..Len(s) : IsDigit(s[i]) }) <= MaxStrDigits
    /\ \A i \in 1..Len(s) : IsDigit(s[i]) \/ s[i] = "_"
    /\ s[1] # "_"
    /\ s[Len(s)] # "_"
    /\ \A i \in 1..(Len(s) - 1) : ~(s[i] = "_" /\ s[i + 1] = "_")

\* the number a digit string holds: the underscores are skipped
RECURSIVE DigitsValue(_)
DigitsValue(s) ==
    IF Len(s) = 0 THEN 0
    ELSE IF s[Len(s)] = "_" THEN DigitsValue(SubSeq(s, 1, Len(s) - 1))
    ELSE DigitsValue(SubSeq(s, 1, Len(s) - 1)) * 10 + DigitValue(s[Len(s)])

\* int(s) succeeds: blanks around, an optional sign, then the digits;
\* anything else raises ValueError
IntParses(s) == DigitsParse(Unsigned(StripBlanks(s)))

\* int(s) for a string that parses
IntValue(s) ==
    LET t == StripBlanks(s)
    IN  IF HasSign(t) /\ t[1] = "-" THEN 0 - DigitsValue(Unsigned(t))
        ELSE DigitsValue(Unsigned(t))

Max2(a, b) == IF a > b THEN a ELSE b

(***************************************************************************)
(* Host names and raw events.                                              *)
(***************************************************************************)
\* socket.gethostname(): a plain name, or one that holds the separator
HostNames == { <<"A">>, <<"A", "_", "1">> }

EmptyString == << >>

\* evento_raw["Message"]: a string, or null when the source could not
\* render the message
MessageValues == { [none |-> FALSE, text |-> <<"d">>], [none |-> TRUE, text |-> << >>] }

\* the raw events an EventSource call can return: the JSON objects of the
\* PowerShell script, RecordId a number or null
RawEvents ==
    [ RecordId : 1..MaxRecordId, MachineName : HostNames, Message : MessageValues ]
        \cup [ RecordId : { NoneId }, MachineName : HostNames,
               Message : { [none |-> FALSE, text |-> <<"d">>] } ]

\* record_id > self.highest_record_id raises TypeError when record_id is None
CompareRaises(record_id) == record_id = NoneId

RECURSIVE SeqsUpTo(_, _)
SeqsUpTo(S, n) ==
    IF n = 0 THEN { << >> }
    ELSE LET shorter == SeqsUpTo(S, n - 1)
         IN  shorter \cup { Append(q, x) : q \in { r \in shorter : Len(r) = n - 1 }, x \in S }

\* what buscar_todos_eventos_powershell / buscar_eventos_recentes_powershell
\* can return: any list of raw events, the empty list when the source fails
FetchResults == SeqsUpTo(RawEvents, MaxFetch)

\* the fetched lists as the filter loop of a tick sees them: an event of
\* another host fails the test machine_name == self.machine_name and the
\* turn does nothing, so a list acts as its events of the local host do
LocalFetchResults ==
    [ local \in HostNames |->
        SeqsUpTo({ ev \in RawEvents : ev.MachineName = local }, MaxFetch) ]

(***************************************************************************)
(* Identity.                                                               *)
(***************************************************************************)
\* an identity written without the separator
criar_id_sem_separador(record_id, name, local) ==
    (IF name = EmptyString THEN local ELSE name) \o PyStr(record_id)

\* criar_id_unico(record_id, machine_name): an empty machine_name is
\* replaced by the local host
criar_id_unico(record_id, name, local) ==
    (IF name = EmptyString THEN local ELSE name) \o <<"_">> \o PyStr(record_id)

\* the identity the filters compute for a raw event
EventIdentity(ev, local) == criar_id_unico(ev.RecordId, ev.MachineName, local)

(***************************************************************************)
(* Extractor, as far as the agent loop depends on it: a record, or None    *)
(* (the empty list here) when the message is null and the body raises.     *)
(***************************************************************************)
extrair_dados_evento(ev) ==
    IF ev.Message.none THEN << >>
    ELSE << [record_id |-> ev.RecordId, machine |-> ev.MachineName] >>

\* a copy sent as it is
StripNothing(e) == e

\* event.copy(); pop('record_id')
StripRecordId(e) == [machine |-> e.machine]

RECURSIVE StripAll(_)
StripAll(events) ==
    IF events = << >> THEN << >>
    ELSE << StripRecordId(Head(events)) >> \o StripAll(Tail(events))

(***************************************************************************)
(* Extractor, the page count.  A message is described by what each         *)
(* re.search of extrair_dados_evento finds in it: no match (the empty      *)
(* list) or the number its group (\d+) holds.                              *)
(***************************************************************************)
\* the upper limit of a page count
MaxPages == 10000

\* a group (\d+) of more than MaxStrDigits digits: int(match.group(1))
\* raises ValueError
Overlong == -1

IntRaises(v) == v = Overlong

\* a message: null, or text in the Portuguese or the other branch, with the
\* results of the four page patterns of the branch (the Portuguese branch
\* has three) and of the four generic patterns
NullMessage == [ kind |-> "null", lang |-> "en", p |-> << >>, g |-> << >> ]

\* the JSON values of the field Message that are no text: mensagem[:200] or
\* the first re.search raises TypeError on each of them
NonTextKinds == { "null", "number", "bool", "list", "object" }

NonTextMessages == { [ NullMessage EXCEPT !.kind = k ] : k \in NonTextKinds }

\* `1 <= pages <= 10000`
PagesInRange(n) == 1 <= n /\ n <= MaxPages

\* patterns 1 to 4 of the branch, tried in order while `not pages_found`:
\* the first that matches sets dados['pages'], whatever the number; the
\* default is 1
RECURSIVE SpecificPages(_, _, _)
SpecificPages(p, i, n) ==
    IF i > n THEN 1
    ELSE IF p[i] # << >> THEN p[i][1]
    ELSE SpecificPages(p, i + 1, n)

\* the generic patterns, tried in order: the first match whose number is in
\* range sets the page count and ends the scan; int() of a match reached
\* before that can raise (the result is then Overlong)
RECURSIVE GenericPages(_, _, _)
GenericPages(g, i, pages) ==
    IF i > Len(g) THEN pages
    ELSE IF g[i] # << >> /\ IntRaises(g[i][1]) THEN Overlong
    ELSE IF g[i] # << >> /\ PagesInRange(g[i][1]) THEN g[i][1]
    ELSE GenericPages(g, i + 1, pages)

\* the final validation: an out-of-range count becomes 1
FinalValidation(pages) == IF pages < 1 \/ pages > MaxPages THEN 1 ELSE pages

\* dados['pages'] of the record extrair_dados_evento returns for a text;
\* Overlong when an int() of the body raised
ExtractPages(m) ==
    LET specific == SpecificPages(m.p, 1, IF m.lang = "pt" THEN 3 ELSE 4)
        scanned  == IF IntRaises(specific) THEN Overlong
                    ELSE IF specific = 1 THEN GenericPages(m.g, 1, specific)
                    ELSE specific
    IN  IF IntRaises(scanned) THEN Overlong ELSE FinalValidation(scanned)

\* extrair_dados_evento on a message: None when the body raises (the except
\* clause logs and returns None), on a Message that is no text and on a
\* match int() does not convert; else the record's pages
ExtractMessage(m) ==
    IF m.kind # "text" \/ IntRaises(ExtractPages(m))
    THEN [ returned |-> FALSE, pages |-> 0 ]
    ELSE [ returned |-> TRUE, pages |-> ExtractPages(m) ]

(***************************************************************************)
(* DedupStore: load, high-water mark, persist with compaction.             *)
(***************************************************************************)
\* the state file before the first save: os.path.exists() is false
NoFile ==
    [ exists |-> FALSE, processed_ids |-> {}, highest_id_this_machine |-> 0,
      total_processed |-> 0 ]

\* carregar_eventos_processados: the entries written by this program are
\* strings and are kept as they are
carregar_eventos_processados(f) == IF f.exists THEN f.processed_ids ELSE {}

\* an entry of the JSON list processed_ids: a number (written by the older
\* version) or a string
LegacyEntry(n) == [ int |-> TRUE, n |-> n, s |-> << >> ]

StringEntry(s) == [ int |-> FALSE, n |-> 0, s |-> s ]

\* the conversion loop of carregar_eventos_processados: a number becomes
\* f"{self.machine_name}_{pid}", a string is kept
ConvertEntry(e, local) == IF e.int THEN local \o <<"_">> \o PyStr(e.n) ELSE e.s

ConvertEntries(entries, local) == { ConvertEntry(e, local) : e \in entries }

\* the identities of S the __init__ scan counts for the local host: they
\* start with "<local>_" and int() accepts what follows the FIRST '_'
LocalScan(S, local) ==
    { id \in S : StartsWith(id, local \o <<"_">>) /\ IntParses(Split1(id)[2]) }

SetMax(N) == IF N = {} THEN 0 ELSE CHOOSE n \in N : \A m \in N : m <= n

\* __init__: highest_record_id recomputed from the loaded identities
InitHighest(S, local) ==
    Max2(0, SetMax({ IntValue(Split1(id)[2]) : id \in LocalScan(S, local) }))

\* the marks the __init__ scan can leave when KeyboardInterrupt arrives
\* inside its try: the bare `except: pass` swallows it, the identity of that
\* turn is not counted and the construction goes on
MarkScan(S, local) ==
    { Max2(0, SetMax(T)) :
        T \in SUBSET { IntValue(Split1(id)[2]) : id \in LocalScan(S, local) } }

\* salvar_eventos_processados, grouping step: (machine, int(record_id), id)
\* for every identity that holds a '_' and whose tail int() accepts; the
\* others are skipped
CompactEntries(S) ==
    { [machine |-> Split1(id)[1], num |-> IntValue(Split1(id)[2]), id |-> id] :
        id \in { x \in S : HasUnderscore(x) /\ IntParses(Split1(x)[2]) } }

\* eventos.sort(key=record_id); eventos[-KeepPerMachine:] for one machine
\* group: the whole group when it is no longer than KeepPerMachine, else
\* KeepPerMachine entries none of which has a smaller number than an entry
\* left out.  The sort is stable and the list was filled in the iteration
\* order of a set of strings, which depends on the hash seed of the run:
\* among entries with the number at the cut, any can be the ones kept
KeptOfGroup(X, G) ==
    IF Cardinality(G) <= KeepPerMachine THEN X = G
    ELSE /\ Cardinality(X) = KeepPerMachine
         /\ \A x \in X, o \in G \ X : o.num <= x.num

\* the identity sets the sort and the slice can leave of the grouped
\* entries: one set unless two entries of a group share the number at the cut
KeptSets(entries) ==
    { { e.id : e \in X } :
        X \in { Y \in SUBSET entries :
                  \A m \in { e.machine : e \in entries } :
                      KeptOfGroup({ e \in Y : e.machine = m },
                                  { e \in entries : e.machine = m }) } }

\* the identity sets the compaction of salvar_eventos_processados can leave
KeepLast(S) == UNION { KeptSets(entries) : entries \in { CompactEntries(S) } }

\* a compaction that starts at the limit instead of above it
CompactOnSaveAtLimit(S) == IF Cardinality(S) >= PersistLimit THEN KeepLast(S) ELSE { S }

\* the identity sets salvar_eventos_processados can leave in memory
CompactOnSave(S) == IF Cardinality(S) > PersistLimit THEN KeepLast(S) ELSE { S }

\* KeyboardInterrupt signals one call of salvar_eventos_processados takes
\* inside the inner try of its grouping loop, at most
MaxSwallowed == 1

\* the grouped entries when KeyboardInterrupt arrives inside the inner try
\* of the grouping loop: the bare `except: pass` swallows it, the entry of
\* that turn is not appended and the loop goes on; no signal, or up to
\* MaxSwallowed of them
GroupedEntries(S) ==
    UNION { { entries \ D :
                D \in { X \in SUBSET entries : Cardinality(X) <= MaxSwallowed } } :
            entries \in { CompactEntries(S) } }

\* the identity sets a call of salvar_eventos_processados inside a run can
\* leave in memory
CompactInRun(S) ==
    IF Cardinality(S) > PersistLimit
    THEN UNION { KeptSets(entries) : entries \in GroupedEntries(S) }
    ELSE { S }

\* the JSON document salvar_eventos_processados writes
FileData(S, highest) ==
    [ exists |-> TRUE, processed_ids |-> S, highest_id_this_machine |-> highest,
      total_processed |-> Cardinality(S) ]

\* salvar_eventos_processados: the whole body runs under try / except
\* Exception: the compaction first, then open() and json.dump(), whose error
\* is logged and not raised; the outcomes the call can have
salvar_eventos_processados(S, highest, write_ok) ==
    { [ ids |-> kept, highest |-> highest, written |-> write_ok, raised |-> FALSE ] :
        kept \in CompactOnSave(S) }

\* a state file that open(..., 'w') has cut and into which no document was
\* written: the file is there and holds no JSON document; json.load raises
\* on it and carregar_eventos_processados returns the empty set, as for a
\* document that lists no identity
CutFile ==
    [ exists |-> TRUE, processed_ids |-> {}, highest_id_this_machine |-> 0,
      total_processed |-> 0 ]

\* how the write of a call can end: the document is written; open() fails
\* and the file is as it was; open() has cut the file and json.dump() or the
\* close fails
WriteOutcomes == { "written", "refused", "cut" }

\* the state file after the write of the identity set kept
FileAfter(f, kept, highest, outcome) ==
    CASE outcome = "written" -> FileData(kept, highest)
      [] outcome = "refused" -> f
      [] outcome = "cut"     -> CutFile

\* identity set and state file when a call inside a run has returned; the
\* error of a failed write is logged by the call and not raised
SaveResults(S, highest, f) ==
    { [ ids |-> kept, file |-> FileAfter(f, kept, highest, outcome),
        written |-> outcome = "written" ] :
        kept \in CompactInRun(S), outcome \in WriteOutcomes }

\* identity set and state file at the points of a call where
\* KeyboardInterrupt leaves it (`except Exception` does not catch it): before
\* the assignment of the compacted set, before open(), between open() and
\* json.dump(), after the write
SaveSteps(S, highest, f) ==
    { [ ids |-> S, file |-> f ] }
        \cup { [ ids |-> kept, file |-> w ] :
                  kept \in CompactInRun(S), w \in { f, CutFile } }
        \cup { [ ids |-> kept, file |-> FileData(kept, highest) ] :
                  kept \in CompactInRun(S) }

(***************************************************************************)
(* Loops of the agent, as operators.                                       *)
(***************************************************************************)
\* a filter that takes every fetched event as new
NaoProcessadosAll(raw, seen, local) == raw

\* processar_todos_eventos, filter loop: the raw events whose identity is
\* not in the identity set
RECURSIVE NaoProcessados(_, _, _)
NaoProcessados(raw, seen, local) ==
    IF raw = << >> THEN << >>
    ELSE (IF EventIdentity(Head(raw), local) \notin seen THEN << Head(raw) >> ELSE << >>)
            \o NaoProcessados(Tail(raw), seen, local)

\* processar_todos_eventos, extraction loop: None results are skipped
RECURSIVE ExtractAll(_)
ExtractAll(raw) ==
    IF raw = << >> THEN << >>
    ELSE extrair_dados_evento(Head(raw)) \o ExtractAll(Tail(raw))

\* a marking loop that assigns the mark from every local event, in fetch order
RECURSIVE MarkCatchUpUnguarded(_, _, _, _)
MarkCatchUpUnguarded(raw, seen, highest, local) ==
    IF raw = << >> THEN [seen |-> seen, highest |-> highest, error |-> FALSE]
    ELSE LET ev == Head(raw)
             s1 == seen \cup { EventIdentity(ev, local) }
         IN  IF ev.MachineName = local /\ CompareRaises(ev.RecordId)
             THEN [seen |-> s1, highest |-> highest, error |-> TRUE]
             ELSE MarkCatchUpUnguarded(Tail(raw), s1,
                     IF ev.MachineName = local THEN ev.RecordId ELSE highest, local)

\* processar_todos_eventos, marking loop after a successful pass: the
\* identity set and the mark it leaves, and whether the comparison raised
\* (the loop then stops at that event, its identity already added)
RECURSIVE MarkCatchUp(_, _, _, _)
MarkCatchUp(raw, seen, highest, local) ==
    IF raw = << >> THEN [seen |-> seen, highest |-> highest, error |-> FALSE]
    ELSE LET ev == Head(raw)
             s1 == seen \cup { EventIdentity(ev, local) }
         IN  IF ev.MachineName = local /\ CompareRaises(ev.RecordId)
             THEN [seen |-> s1, highest |-> highest, error |-> TRUE]
             ELSE MarkCatchUp(Tail(raw), s1,
                     IF ev.MachineName = local /\ ev.RecordId > highest
                     THEN ev.RecordId ELSE highest, local)

\* identity set and mark at the points of that loop where KeyboardInterrupt
\* can arrive: after each turn, and inside a turn between add() and the
\* assignment of the mark; no turn follows one whose comparison raised
MarkCatchUpSteps(raw, seen, highest, local) ==
    LET M(k) == MarkCatchUp(SubSeq(raw, 1, k), seen, highest, local)
    IN  { [ seen |-> M(k).seen, highest |-> M(k).highest ] :
            k \in { j \in 0..Len(raw) : j = 0 \/ ~M(j - 1).error } }
          \cup { [ seen |-> M(k).seen, highest |-> M(k - 1).highest ] :
                    k \in { j \in 1..Len(raw) : ~M(j - 1).error } }

\* a filter loop that leaves the identity set alone
RECURSIVE FilterNewNoPending(_, _, _, _)
FilterNewNoPending(raw, seen, highest, local) ==
    IF raw = << >> THEN [novos |-> << >>, seen |-> seen, error |-> FALSE]
    ELSE LET ev    == Head(raw)
             reach == EventIdentity(ev, local) \notin seen /\ ev.MachineName = local
         IN  IF reach /\ CompareRaises(ev.RecordId)
             THEN [novos |-> << >>, seen |-> seen, error |-> TRUE]
             ELSE LET rec  == IF reach /\ ev.RecordId > highest
                              THEN extrair_dados_evento(ev) ELSE << >>
                      rest == FilterNewNoPending(Tail(raw), seen, highest, local)
                  IN  [novos |-> rec \o rest.novos, seen |-> rest.seen,
                       error |-> rest.error]

\* monitor_events, filter loop of a tick: new AND local AND above the mark;
\* an accepted event's identity joins the identity set at once.  The result
\* holds the accepted records, the identity set, and whether the comparison
\* raised (the loop then stops, what it added to the identity set stays)
RECURSIVE FilterNew(_, _, _, _)
FilterNew(raw, seen, highest, local) ==
    IF raw = << >> THEN [novos |-> << >>, seen |-> seen, error |-> FALSE]
    ELSE LET ev    == Head(raw)
             id    == EventIdentity(ev, local)
             reach == id \notin seen /\ ev.MachineName = local
         IN  IF reach /\ CompareRaises(ev.RecordId)
             THEN [novos |-> << >>, seen |-> seen, error |-> TRUE]
             ELSE LET rec  == IF reach /\ ev.RecordId > highest
                              THEN extrair_dados_evento(ev) ELSE << >>
                      rest == FilterNew(Tail(raw),
                                        IF rec # << >> THEN seen \cup {id} ELSE seen,
                                        highest, local)
                  IN  [novos |-> rec \o rest.novos, seen |-> rest.seen,
                       error |-> rest.error]

\* monitor_events, marking loop after a successful tick
RECURSIVE MarkBuffer(_, _, _, _)
MarkBuffer(buffer, seen, highest, local) ==
    IF buffer = << >> THEN [seen |-> seen, highest |-> highest]
    ELSE LET rid == Head(buffer).record_id
         IN  MarkBuffer(Tail(buffer),
                        seen \cup { criar_id_unico(rid, EmptyString, local) },
                        IF rid > highest THEN rid ELSE highest, local)

\* identity set and mark at the points of that loop where KeyboardInterrupt
\* can arrive: after each turn, and between add() and the assignment
MarkBufferSteps(buffer, seen, highest, local) ==
    LET M(k) == MarkBuffer(SubSeq(buffer, 1, k), seen, highest, local)
    IN  { M(k) : k \in 0..Len(buffer) }
          \cup { [ seen |-> M(k).seen, highest |-> M(k - 1).highest ] :
                    k \in 1..Len(buffer) }

\* monitor_events, marking loop of the drain: the mark is not touched
RECURSIVE MarkDrain(_, _, _)
MarkDrain(buffer, seen, local) ==
    IF buffer = << >> THEN seen
    ELSE MarkDrain(Tail(buffer),
                   seen \cup { criar_id_unico(Head(buffer).record_id, EmptyString, local) },
                   local)

\* the identity set after each turn of that loop
MarkDrainSteps(buffer, seen, local) ==
    { MarkDrain(SubSeq(buffer, 1, k), seen, local) : k \in 0..Len(buffer) }

\* a cut that keeps the oldest records
TruncateBufferAtOldest(buffer, limit, keep) ==
    IF Len(buffer) > limit THEN SubSeq(buffer, 1, keep) ELSE buffer

\* a buffer that is never cut
TruncateBufferAtNever(buffer, limit, keep) == buffer

\* `if len(eventos_buffer) > limit: eventos_buffer = eventos_buffer[-keep:]`
TruncateBufferAt(buffer, limit, keep) ==
    IF Len(buffer) > limit
    THEN SubSeq(buffer, Len(buffer) - keep + 1, Len(buffer))
    ELSE buffer

\* the cut of the tick's failure branch, at the scale of the agent's runs
TruncateBuffer(buffer) == TruncateBufferAt(buffer, BufferLimit, BufferKeep)

\* len(self.eventos_buffer) > 1000 and eventos_buffer[-500:] as the source
\* writes them
SourceBufferLimit == 1000

SourceBufferKeep == 500

\* the else branch of a tick, after send_events returned False: a warning,
\* and the cut of a buffer above the limit; the mark is not assigned and
\* salvar_eventos_processados is not called
FailedDelivery(buffer, highest, f, limit, keep) ==
    [ buffer |-> TruncateBufferAt(buffer, limit, keep), highest |-> highest, file |-> f ]

\* a slice that runs one record into the next batch
BatchAtOverlap(events, i, size) ==
    SubSeq(events, i + 1, IF i + size + 1 < Len(events) THEN i + size + 1 ELSE Len(events))

\* events_to_send[i:i + size], i counted from 0
BatchAt(events, i, size) ==
    SubSeq(events, i + 1, IF i + size < Len(events) THEN i + size ELSE Len(events))

\* the fields of a raw event the identity is computed from
EventKey(ev) == [RecordId |-> ev.RecordId, MachineName |-> ev.MachineName]

RECURSIVE EventKeys(_)
EventKeys(raw) ==
    IF raw = << >> THEN << >> ELSE << EventKey(Head(raw)) >> \o EventKeys(Tail(raw))

SeqToSet(q) == { q[i] : i \in 1..Len(q) }

(***************************************************************************)
(* Sender.                                                                 *)
(***************************************************************************)
\* what one requests.post of send_events can meet: HTTP 200 with a JSON
\* object body, HTTP 200 with any other body, another status,
\* ConnectionError / Timeout
Responses == { "200_json", "200_other", "http_error", "network_error" }

\* the collector's answers to the 1st, 2nd, ... request of one call
ResponseSeqs == { q \in SeqsUpTo(Responses, max_retries) : Len(q) = max_retries }

\* the attempt returns True: status 200 and response.json() / result.get
\* raise nothing (an exception there is caught as a failed attempt)
AttemptSucceeds(resp) == resp = "200_json"

\* a sleep after every failed attempt, the last one included
SleepsAfterAlways(attempt) == TRUE

\* time.sleep(5) follows a failed attempt
SleepsAfter(attempt) == attempt < max_retries - 1

\* range(max_retries) holds this attempt number
InRange(attempt) == attempt < max_retries

\* send_events, the retry loop from attempt number `attempt` on:
\* the value returned, the requests posted and the sleeps taken
RECURSIVE RetryLoop(_, _)
RetryLoop(resps, attempt) ==
    IF ~InRange(attempt) THEN [ result |-> FALSE, requests |-> 0, sleeps |-> 0 ]
    ELSE IF AttemptSucceeds(resps[attempt + 1])
         THEN [ result |-> TRUE, requests |-> 1, sleeps |-> 0 ]
         ELSE LET rest == RetryLoop(resps, attempt + 1)
              IN  [ result   |-> rest.result,
                    requests |-> 1 + rest.requests,
                    sleeps   |-> (IF SleepsAfter(attempt) THEN 1 ELSE 0) + rest.sleeps ]

\* send_events(events) against a collector that answers resps
send_events(events, resps) ==
    IF events = << >> THEN [ result |-> TRUE, requests |-> 0, sleeps |-> 0 ]
    ELSE RetryLoop(resps, 0)

(***************************************************************************)
(* State.                                                                  *)
(***************************************************************************)
VARIABLES
    machine_name,          \* self.machine_name
    process_all_on_start,  \* self.process_all_on_start
    checks,                \* history: what the start-up tests of main() returned
    eventos_processados,   \* self.eventos_processados: set of identities
    highest_record_id,     \* self.highest_record_id
    eventos_buffer,        \* eventos_buffer of monitor_events
    file,                  \* processed_events.json
    pc,                    \* where the process is
    cu,                    \* locals of processar_todos_eventos / send_events_batch
    snd,                   \* arguments of the running send_events call
    send_result,           \* value the last send_events call returned
    delivered,             \* history: records of calls send_events reported successful
    dropped,               \* history: records cut from the buffer by the overflow rule
    restarts,              \* history: completed shutdown / restart cycles
    stop,                  \* history: where KeyboardInterrupt arrived, what the drain did
    tick_faults,           \* history: what went wrong in the tick that ran last
    call_args,             \* function-level runs: the arguments
    call_ret               \* function-level runs: the value returned

agentVars ==
    << machine_name, process_all_on_start, checks, eventos_processados,
       highest_record_id, eventos_buffer, file, pc,
       cu, snd, send_result, delivered, dropped, restarts, stop, tick_faults >>

callVars == << call_args, call_ret >>

vars == << agentVars, callVars >>

NoCall == [ fn |-> "none" ]

IdleCu == [ nao |-> << >>, events |-> << >>, i |-> 0, failed |-> << >> ]

IdleSnd == [ events |-> << >>, src |-> << >>, ret |-> "none" ]

\* entry of send_events(events); src is the same list before record_id was
\* stripped (history only)
NewSend(src, ret) == [ events |-> StripAll(src), src |-> src, ret |-> ret ]

\* no KeyboardInterrupt so far in this run, no drain; saved: the final save
\* of the drain has run to its end, whether or not its write succeeded
NoStop == [ sig |-> "none", attempted |-> FALSE, saved |-> FALSE ]

\* the start-up tests of main() are not part of the run
NoChecks == [ powershell |-> "none", connection |-> "none" ]

\* a process right after PrintMonitor.__init__ on a host without state file,
\* under the default configuration
AgentInit ==
    /\ machine_name \in HostNames
    /\ process_all_on_start = TRUE
    /\ checks = NoChecks
    /\ file = NoFile
    /\ eventos_processados = carregar_eventos_processados(NoFile)
    /\ highest_record_id = InitHighest(carregar_eventos_processados(NoFile), machine_name)
    /\ eventos_buffer = << >>
    /\ pc = "start"
    /\ cu = IdleCu
    /\ snd = IdleSnd
    /\ send_result = FALSE
    /\ delivered = {}
    /\ dropped = {}
    /\ restarts = 0
    /\ stop = NoStop
    /\ tick_faults = {}

Init ==
    /\ AgentInit
    /\ call_args = NoCall
    /\ call_ret = NoCall

(***************************************************************************)
(* send_events, called by the catch-up pass, the tick and the drain.       *)
(***************************************************************************)
SendEvents ==
    /\ pc = "send"
    /\ \E result \in { send_events(snd.events, resps).result : resps \in ResponseSeqs } :
        /\ send_result' = result
        /\ delivered' = IF result THEN delivered \cup SeqToSet(snd.src) ELSE delivered
    /\ pc' = "sent"
    /\ UNCHANGED << machine_name, process_all_on_start, checks, eventos_processados, highest_record_id, eventos_buffer,
                    file, cu, snd, dropped, restarts, stop, tick_faults, callVars >>

(***************************************************************************)
(* processar_todos_eventos.                                                *)
(***************************************************************************)
\* fetch, filter, extract, and enter send_events_batch with the first batch;
\* the fetch can return any list of FetchResults
CatchUpStart ==
    /\ pc = "start"
    /\ process_all_on_start
    /\ \E nao \in { NaoProcessados(raw, eventos_processados, machine_name) :
                      raw \in FetchResults } :
        LET evs == ExtractAll(nao)
        IN  IF evs = << >>
            THEN /\ pc' = "poll"
                 /\ UNCHANGED << cu, snd >>
            ELSE /\ cu' = [ nao |-> EventKeys(nao), events |-> evs, i |-> 0,
                            failed |-> << >> ]
                 /\ snd' = NewSend(BatchAt(evs, 0, batch_size), "cu")
                 /\ pc' = "send"
    /\ UNCHANGED << machine_name, process_all_on_start, checks, eventos_processados, highest_record_id, eventos_buffer,
                    file, send_result, delivered, dropped, restarts, stop, tick_faults,
                    callVars >>

\* a pass that reports success whatever its batches did
BatchResultAlways(failed) == TRUE

\* send_events_batch returns True only when no batch failed
BatchResult(failed) == failed = << >>

\* a batch's send_events call returned: next batch, or the end of the pass
\* (marking loop and save; a write that fails is logged and the pass ends
\* as after one that succeeded, the file as it was or cut to nothing).
\* A TypeError of the marking loop is caught nowhere in monitor_events (the
\* pass runs before the loop's try) and main() re-raises it: the process
\* ends with what was marked in memory and an untouched file.
CatchUpBatchDone ==
    /\ pc = "sent"
    /\ snd.ret = "cu"
    /\ LET failed == IF send_result THEN cu.failed ELSE Append(cu.failed, cu.i)
           next   == cu.i + batch_size
           m      == MarkCatchUp(cu.nao, eventos_processados, highest_record_id,
                                 machine_name)
       IN  IF next < Len(cu.events)
           THEN /\ cu' = [ cu EXCEPT !.i = next, !.failed = failed ]
                /\ snd' = NewSend(BatchAt(cu.events, next, batch_size), "cu")
                /\ pc' = "send"
                /\ UNCHANGED << eventos_processados, highest_record_id, file, stop >>
           ELSE /\ cu' = IdleCu
                /\ snd' = IdleSnd
                /\ IF ~BatchResult(failed)
                   THEN /\ pc' = "poll"
                        /\ UNCHANGED << eventos_processados, highest_record_id, file, stop >>
                   ELSE IF m.error
                   THEN /\ pc' = "stopped"
                        /\ stop' = [ stop EXCEPT !.sig = "error" ]
                        /\ highest_record_id' = m.highest
                        /\ eventos_processados' = m.seen
                        /\ UNCHANGED file
                   ELSE /\ pc' = "poll"
                        /\ highest_record_id' = m.highest
                        /\ \E saved \in SaveResults(m.seen, m.highest, file) :
                            /\ eventos_processados' = saved.ids
                            /\ file' = saved.file
                        /\ UNCHANGED stop
    /\ UNCHANGED << machine_name, process_all_on_start, checks, eventos_buffer, send_result, delivered, dropped,
                    restarts, tick_faults, callVars >>

(***************************************************************************)
(* monitor_events: the polling loop.                                       *)
(***************************************************************************)
\* the in-memory compaction at the end of a tick: the comprehension
\* compares every identity (a str) with highest_record_id - CacheWindow
\* (an int), which raises TypeError on the first element, before
\* self.eventos_processados is assigned; the loop's except clause catches it
CacheCompactionRaises(S) == Cardinality(S) > CacheLimit /\ S # {}

\* the identity set after the end-of-tick compaction step: unchanged, below
\* the limit and when the comprehension raises
CompactCache(S, highest) == S

\* a loop that an error inside a tick ends
OnTickErrorExit == "stopped"

\* `except Exception` of the loop: log, time.sleep(retry_interval), next tick
OnTickError == "backoff"

\* how a tick ends whose identity set is S when it reaches the compaction:
\* time.sleep(check_interval), or the except clause
AfterTick(S) == IF CacheCompactionRaises(S) THEN OnTickError ELSE "poll"

\* what the end-of-tick compaction adds to the record of the tick
CacheFault(S) == IF CacheCompactionRaises(S) THEN { "cache" } ELSE {}

\* first half of a tick: fetch the recent events (any list of FetchResults),
\* filter, extend the buffer
\* (an error of the filter loop discards novos_eventos and ends the tick);
\* with a non-empty buffer the tick enters send_events with the whole buffer
TickFetch ==
    /\ pc = "poll"
    /\ \E r \in { FilterNew(raw, eventos_processados, highest_record_id, machine_name) :
                    raw \in LocalFetchResults[machine_name] } :
        LET buf == eventos_buffer \o r.novos
        IN  IF r.error
            THEN /\ eventos_processados' = r.seen
                 /\ snd' = IdleSnd
                 /\ pc' = OnTickError
                 /\ tick_faults' = { "filter" }
                 /\ UNCHANGED eventos_buffer
            ELSE /\ eventos_buffer' = buf
                 /\ IF buf # << >>
                    THEN /\ eventos_processados' = r.seen
                         /\ snd' = NewSend(buf, "tick")
                         /\ pc' = "send"
                         /\ tick_faults' = {}
                    ELSE /\ eventos_processados' = CompactCache(r.seen, highest_record_id)
                         /\ snd' = IdleSnd
                         /\ pc' = AfterTick(r.seen)
                         /\ tick_faults' = CacheFault(r.seen)
    /\ UNCHANGED << machine_name, process_all_on_start, checks, highest_record_id, file, cu, send_result, delivered,
                    dropped, restarts, stop, callVars >>

\* second half of a tick: bookkeeping after send_events returned, the
\* end-of-tick compaction, and the sleep.  After a delivery the marks are
\* made and the buffer is cleared before the save; a write that fails is
\* logged inside salvar_eventos_processados, leaves the file as it was or
\* cut to nothing, and the tick goes on
TickAfterSend ==
    /\ pc = "sent"
    /\ snd.ret = "tick"
    /\ IF send_result
       THEN LET m == MarkBuffer(eventos_buffer, eventos_processados, highest_record_id,
                                machine_name)
            IN  /\ highest_record_id' = m.highest
                /\ eventos_buffer' = << >>
                /\ \E r \in SaveResults(m.seen, m.highest, file) :
                        /\ eventos_processados' = CompactCache(r.ids, m.highest)
                        /\ file' = r.file
                        /\ tick_faults' = (IF r.written THEN {} ELSE { "save" })
                                              \cup CacheFault(r.ids)
                /\ UNCHANGED dropped
       ELSE /\ \E d \in { FailedDelivery(eventos_buffer, highest_record_id, file,
                                           BufferLimit, BufferKeep) } :
                /\ eventos_buffer' = d.buffer
                /\ highest_record_id' = d.highest
                /\ file' = d.file
                /\ dropped' = dropped \cup (SeqToSet(eventos_buffer) \ SeqToSet(d.buffer))
            /\ eventos_processados' = CompactCache(eventos_processados, highest_record_id)
            /\ tick_faults' = { "delivery" } \cup CacheFault(eventos_processados)
    /\ snd' = IdleSnd
    /\ pc' = AfterTick(eventos_processados')
    /\ UNCHANGED << machine_name, process_all_on_start, checks, cu, send_result, delivered, restarts, stop, callVars >>

\* time.sleep(retry_interval) of the except clause returns: next iteration
BackoffSleep ==
    /\ pc = "backoff"
    /\ pc' = "poll"
    /\ tick_faults' = {}
    /\ UNCHANGED << machine_name, process_all_on_start, checks, eventos_processados, highest_record_id, eventos_buffer,
                    file, cu, snd, send_result, delivered, dropped, restarts, stop,
                    callVars >>

(***************************************************************************)
(* KeyboardInterrupt, the drain, and the next process run.                 *)
(***************************************************************************)
\* KeyboardInterrupt is a BaseException: no "except Exception" catches it.
\* Inside the loop's try (also inside the tick's send_events) the clause
\* `except KeyboardInterrupt` leaves the loop and the drain follows.  Raised
\* in processar_todos_eventos, in the time.sleep(retry_interval) of the
\* except clause, or in the drain's own send_events, it leaves monitor_events
\* and main(), which catches Exception only: the process ends there.  With
\* process_all_on_start disabled the process at the entry of monitor_events
\* is before the loop's try and in no pass.
\* Handled at the jump back to `while True`, after time.sleep(check_interval)
\* returned, the signal is outside the loop's try as well: the process ends
\* with no drain and no final save, the buffer lost.
\* This action takes the signal where the process waits (a fetch, a request,
\* a sleep), at the jump back, or before the drain; the three actions after
\* it take it between two statements of the bookkeeping.
Interrupt ==
    /\ \/ /\ pc = "poll" \/ (pc = "send" /\ snd.ret = "tick")
          /\ pc' = "drain"
          /\ stop' = [ stop EXCEPT !.sig = "loop" ]
       \/ /\ pc = "poll"
          /\ pc' = "stopped"
          /\ stop' = [ stop EXCEPT !.sig = "loop" ]
       \/ /\ pc = "backoff"
          /\ pc' = "stopped"
          /\ stop' = [ stop EXCEPT !.sig = "backoff" ]
       \/ /\ pc = "start" \/ (pc = "send" /\ snd.ret = "cu")
          /\ pc' = "stopped"
          /\ stop' = [ stop EXCEPT !.sig = IF pc = "start" /\ ~process_all_on_start
                                           THEN "startup" ELSE "catchup" ]
       \/ /\ pc = "drain" \/ (pc = "send" /\ snd.ret = "drain")
          /\ pc' = "stopped"
          /\ stop' = [ stop EXCEPT !.sig = "drain" ]
    /\ snd' = IdleSnd
    /\ cu' = IdleCu
    /\ tick_faults' = {}
    /\ UNCHANGED << machine_name, process_all_on_start, checks, eventos_processados, highest_record_id, eventos_buffer,
                    file, send_result, delivered, dropped, restarts, callVars >>

\* what processar_todos_eventos has done to the identity set, the mark and
\* the state file at the points between the return of a batch's send_events
\* and the return of the pass: nothing while batches are left (the pause
\* between two batches) or a batch failed; else the turns of the marking
\* loop and the points of the save
CatchUpSteps ==
    LET failed == IF send_result THEN cu.failed ELSE Append(cu.failed, cu.i)
        m      == MarkCatchUp(cu.nao, eventos_processados, highest_record_id,
                              machine_name)
    IN  IF cu.i + batch_size < Len(cu.events) \/ ~BatchResult(failed)
        THEN { [ seen |-> eventos_processados, highest |-> highest_record_id,
                 file |-> file ] }
        ELSE { [ seen |-> s.seen, highest |-> s.highest, file |-> file ] :
                 s \in MarkCatchUpSteps(cu.nao, eventos_processados, highest_record_id,
                                        machine_name) }
               \cup (IF m.error THEN {}
                     ELSE { [ seen |-> v.ids, highest |-> m.highest, file |-> v.file ] :
                              v \in SaveSteps(m.seen, m.highest, file) })

\* KeyboardInterrupt after a batch's send_events returned, inside
\* send_events_batch or processar_todos_eventos: the pass runs before the
\* loop's try, the process ends with what was done so far
InterruptCatchUp ==
    /\ pc = "sent"
    /\ snd.ret = "cu"
    /\ \E p \in CatchUpSteps :
        /\ eventos_processados' = p.seen
        /\ highest_record_id' = p.highest
        /\ file' = p.file
    /\ pc' = "stopped"
    /\ stop' = [ stop EXCEPT !.sig = "catchup" ]
    /\ snd' = IdleSnd
    /\ cu' = IdleCu
    /\ UNCHANGED << machine_name, process_all_on_start, checks, eventos_buffer, send_result,
                    delivered, dropped, restarts, tick_faults, callVars >>

\* what the bookkeeping of a tick has done at the points between the return
\* of send_events and the sleep: after a delivery the turns of the marking
\* loop (the buffer still whole), then the cleared buffer and the points of
\* the save; after a failure the buffer before and after the cut
TickSteps ==
    IF send_result
    THEN LET m == MarkBuffer(eventos_buffer, eventos_processados, highest_record_id,
                             machine_name)
         IN  { [ seen |-> s.seen, highest |-> s.highest, buffer |-> eventos_buffer,
                 file |-> file ] :
                 s \in MarkBufferSteps(eventos_buffer, eventos_processados,
                                       highest_record_id, machine_name) }
               \cup { [ seen |-> v.ids, highest |-> m.highest, buffer |-> << >>,
                        file |-> v.file ] :
                        v \in SaveSteps(m.seen, m.highest, file) }
    ELSE { [ seen |-> eventos_processados, highest |-> highest_record_id,
             buffer |-> b, file |-> file ] :
             b \in { eventos_buffer, TruncateBuffer(eventos_buffer) } }

\* KeyboardInterrupt between two statements of a tick, inside the loop's
\* try: in the filter loop (the identities added so far stay, novos_eventos
\* is lost with the frame of the turn, the buffer is not extended), or in
\* the bookkeeping after send_events returned; the drain follows
InterruptTick ==
    /\ \/ /\ pc = "poll"
          /\ \E r \in { FilterNew(raw, eventos_processados, highest_record_id,
                                    machine_name) :
                          raw \in LocalFetchResults[machine_name] } :
              /\ ~r.error
              /\ r.novos # << >>
              /\ eventos_processados' = r.seen
          /\ UNCHANGED << highest_record_id, eventos_buffer, file, dropped >>
       \/ /\ pc = "sent"
          /\ snd.ret = "tick"
          /\ \E p \in TickSteps :
              /\ eventos_processados' = p.seen
              /\ highest_record_id' = p.highest
              /\ eventos_buffer' = p.buffer
              /\ file' = p.file
              /\ dropped' = IF send_result THEN dropped
                            ELSE dropped \cup (SeqToSet(eventos_buffer) \ SeqToSet(p.buffer))
    /\ pc' = "drain"
    /\ stop' = [ stop EXCEPT !.sig = "loop" ]
    /\ snd' = IdleSnd
    /\ tick_faults' = {}
    /\ UNCHANGED << machine_name, process_all_on_start, checks, cu, send_result, delivered,
                    restarts, callVars >>

\* after the loop: a last send_events of a non-empty buffer, else the final save
DrainStart ==
    /\ pc = "drain"
    /\ IF eventos_buffer # << >>
       THEN /\ snd' = NewSend(eventos_buffer, "drain")
            /\ pc' = "send"
            /\ stop' = [ stop EXCEPT !.attempted = TRUE ]
            /\ UNCHANGED << eventos_processados, file >>
       ELSE /\ snd' = IdleSnd
            /\ pc' = "stopped"
            /\ \E saved \in SaveResults(eventos_processados, highest_record_id, file) :
                /\ eventos_processados' = saved.ids
                /\ file' = saved.file
                /\ stop' = [ stop EXCEPT !.saved = TRUE ]
    /\ UNCHANGED << machine_name, process_all_on_start, checks, highest_record_id, eventos_buffer, cu, send_result,
                    delivered, dropped, restarts, tick_faults, callVars >>

\* identity set and state file after the drain's marking loop and its save,
\* when send_events returned True; as they were when it returned False
DrainMarked ==
    IF send_result
    THEN SaveResults(MarkDrain(eventos_buffer, eventos_processados, machine_name),
                     highest_record_id, file)
    ELSE { [ ids |-> eventos_processados, file |-> file, written |-> FALSE ] }

\* the drain's send_events returned: mark and save on success, then the
\* final save in every case; each of the two writes can fail
DrainAfterSend ==
    /\ pc = "sent"
    /\ snd.ret = "drain"
    /\ \E marked \in DrainMarked :
        \E saved \in SaveResults(marked.ids, highest_record_id, marked.file) :
            /\ eventos_processados' = saved.ids
            /\ file' = saved.file
            /\ stop' = [ stop EXCEPT !.saved = TRUE ]
    /\ snd' = IdleSnd
    /\ pc' = "stopped"
    /\ UNCHANGED << machine_name, process_all_on_start, checks, highest_record_id, eventos_buffer, cu, send_result,
                    delivered, dropped, restarts, tick_faults, callVars >>

\* what the drain has done to the identity set and the state file at the
\* points between the return of its send_events and the end of
\* monitor_events: the turns of the marking loop, the points of the save
\* that follows it, the points of the final save
DrainSteps ==
    (IF send_result
     THEN { [ ids |-> s, file |-> file ] :
              s \in MarkDrainSteps(eventos_buffer, eventos_processados, machine_name) }
            \cup SaveSteps(MarkDrain(eventos_buffer, eventos_processados, machine_name),
                           highest_record_id, file)
     ELSE {})
    \cup UNION { SaveSteps(marked.ids, highest_record_id, marked.file) :
                   marked \in DrainMarked }

\* KeyboardInterrupt in the drain after its send_events returned, or in the
\* final save of a drain with an empty buffer: nothing catches it there, the
\* process ends with what was done so far
InterruptDrain ==
    /\ \/ /\ pc = "sent"
          /\ snd.ret = "drain"
          /\ \E p \in DrainSteps :
              /\ eventos_processados' = p.ids
              /\ file' = p.file
       \/ /\ pc = "drain"
          /\ eventos_buffer = << >>
          /\ \E p \in SaveSteps(eventos_processados, highest_record_id, file) :
              /\ p # [ ids |-> eventos_processados, file |-> file ]
              /\ eventos_processados' = p.ids
              /\ file' = p.file
    /\ pc' = "stopped"
    /\ stop' = [ stop EXCEPT !.sig = "drain" ]
    /\ snd' = IdleSnd
    /\ UNCHANGED << machine_name, process_all_on_start, checks, highest_record_id, eventos_buffer, cu, send_result,
                    delivered, dropped, restarts, tick_faults, callVars >>

\* the next process run: PrintMonitor.__init__ loads the state file and
\* scans it for the mark
Restart ==
    /\ pc = "stopped"
    /\ restarts < MaxRestarts
    /\ restarts' = restarts + 1
    /\ eventos_processados' = carregar_eventos_processados(file)
    /\ highest_record_id' \in MarkScan(carregar_eventos_processados(file), machine_name)
    /\ eventos_buffer' = << >>
    /\ pc' = "start"
    /\ cu' = IdleCu
    /\ snd' = IdleSnd
    /\ send_result' = FALSE
    /\ stop' = NoStop
    /\ tick_faults' = {}
    /\ UNCHANGED << machine_name, process_all_on_start, checks, file, delivered, dropped, callVars >>

Next ==
    \/ CatchUpStart
    \/ CatchUpBatchDone
    \/ SendEvents
    \/ TickFetch
    \/ TickAfterSend
    \/ BackoffSleep
    \/ Interrupt
    \/ InterruptCatchUp
    \/ InterruptTick
    \/ InterruptDrain
    \/ DrainStart
    \/ DrainAfterSend
    \/ Restart

Spec == Init /\ [][Next]_vars

(***************************************************************************)
(* One process run from main(): the start-up tests, the construction of    *)
(* the monitor, the optional catch-up pass, the loop and the drain.        *)
(***************************************************************************)
\* a start-up in which a failed collector test is fatal as well
StartupProceedsBoth(powershell, connection) == powershell /\ connection

\* main() goes on to PrintMonitor() unless test_powershell() failed
StartupProceeds(powershell, connection) == powershell

TestOutcome(ok) == IF ok THEN "ok" ELSE "failed"

\* where KeyboardInterrupt can arrive before monitor_events is entered:
\* nowhere, while test_powershell waits for the subprocess, in main() after
\* test_powershell returned False (the two logger calls before the return),
\* while test_connection waits for the collector, in PrintMonitor() outside
\* the try of the mark scan, inside that try
StartupSignals ==
    { "none", "test_powershell", "main", "test_connection", "PrintMonitor", "mark_scan" }

\* main(): test_powershell, then test_connection, then PrintMonitor().
\* KeyboardInterrupt is caught neither by the `except Exception` of the two
\* tests nor by main(): the process ends where it arrives, the test it
\* interrupted has returned nothing and the later steps are not taken.
\* Inside the try of the mark scan the bare except swallows it: the
\* construction goes on with a mark that misses the identities of the
\* interrupted turns.  A signal at a point the run does not reach is none
Startup ==
    /\ pc = "main"
    /\ \E powershell \in BOOLEAN, connection \in BOOLEAN, signal \in StartupSignals :
        LET tested      == signal # "test_powershell"
            connected   == tested /\ powershell /\ signal # "test_connection"
            proceeds    == tested /\ StartupProceeds(powershell, connection)
            interrupted == \/ signal = "test_powershell"
                           \/ signal = "main" /\ ~powershell
                           \/ signal = "test_connection" /\ powershell
                           \/ signal = "PrintMonitor" /\ proceeds
            loaded      == carregar_eventos_processados(file)
        IN  /\ checks' = [ powershell |-> IF tested THEN TestOutcome(powershell)
                                          ELSE "none",
                           connection |-> IF connected THEN TestOutcome(connection)
                                          ELSE "none" ]
            /\ IF interrupted
               THEN /\ pc' = "stopped"
                    /\ stop' = [ stop EXCEPT !.sig = "startup" ]
                    /\ UNCHANGED << eventos_processados, highest_record_id >>
               ELSE IF proceeds
               THEN /\ eventos_processados' = loaded
                    /\ highest_record_id' \in
                          IF signal = "mark_scan" THEN MarkScan(loaded, machine_name)
                          ELSE { InitHighest(loaded, machine_name) }
                    /\ pc' = "start"
                    /\ UNCHANGED stop
               ELSE /\ pc' = "stopped"
                    /\ UNCHANGED << eventos_processados, highest_record_id, stop >>
    /\ UNCHANGED << machine_name, process_all_on_start, eventos_buffer, file, cu, snd,
                    send_result, delivered, dropped, restarts, tick_faults, callVars >>

\* monitor_events with process_all_on_start disabled goes straight to the loop
CatchUpSkipped ==
    /\ pc = "start"
    /\ ~process_all_on_start
    /\ pc' = "poll"
    /\ UNCHANGED << machine_name, process_all_on_start, checks, eventos_processados,
                    highest_record_id, eventos_buffer, file, cu, snd, send_result,
                    delivered, dropped, restarts, stop, tick_faults, callVars >>

\* the state file main() can find on a host: none, or the one an earlier
\* run left after it delivered the local events with the sequence numbers N
StartFiles(local) ==
    { NoFile } \cup
    { FileData({ criar_id_unico(n, local, local) : n \in N }, SetMax(N)) :
        N \in (SUBSET (1..MaxRecordId)) \ { {} } }

\* the process at the entry of main(), with or without state file, either
\* setting of process_all_on_start
MainInit ==
    /\ machine_name \in HostNames
    /\ process_all_on_start \in BOOLEAN
    /\ checks = NoChecks
    /\ file \in StartFiles(machine_name)
    /\ eventos_processados = {}
    /\ highest_record_id = 0
    /\ eventos_buffer = << >>
    /\ pc = "main"
    /\ cu = IdleCu
    /\ snd = IdleSnd
    /\ send_result = FALSE
    /\ delivered = {}
    /\ dropped = {}
    /\ restarts = 0
    /\ stop = NoStop
    /\ tick_faults = {}
    /\ call_args = NoCall
    /\ call_ret = NoCall

MainNext ==
    \/ Startup
    \/ CatchUpSkipped
    \/ CatchUpStart
    \/ CatchUpBatchDone
    \/ SendEvents
    \/ TickFetch
    \/ TickAfterSend
    \/ BackoffSleep
    \/ Interrupt
    \/ InterruptCatchUp
    \/ InterruptTick
    \/ InterruptDrain
    \/ DrainStart
    \/ DrainAfterSend

MainSpec == MainInit /\ [][MainNext]_vars

TypeOK ==
    /\ machine_name \in HostNames
    /\ pc \in { "main", "start", "send", "sent", "poll", "backoff", "drain", "stopped" }
    /\ process_all_on_start \in BOOLEAN
    /\ highest_record_id \in Nat
    /\ restarts \in 0..MaxRestarts
    /\ send_result \in BOOLEAN

(***************************************************************************)
(* The agent under the scheduling the claims about progress assume: the    *)
(* process keeps taking its next step, a stopped process is started again, *)
(* a collector that is asked again and again accepts a request again and   *)
(* again, and an event the filter loop fails on leaves the window of       *)
(* recent events, so that a loop that keeps fetching has a fetch again and *)
(* again that raises nothing.                                              *)
(***************************************************************************)
SendEventsOk == SendEvents /\ send_result'

TickFetchOk == TickFetch /\ pc' # OnTickError

\* the next step of the running process, or the start of the next run; at
\* most one of them is enabled in a state
AgentStep ==
    \/ CatchUpStart
    \/ CatchUpBatchDone
    \/ SendEvents
    \/ TickFetch
    \/ TickAfterSend
    \/ BackoffSleep
    \/ DrainStart
    \/ DrainAfterSend
    \/ Restart

\* the steps taken by KeyboardInterrupt
Signal ==
    \/ Interrupt
    \/ InterruptCatchUp
    \/ InterruptTick
    \/ InterruptDrain

\* a process that is stopped by the signal is started again: the signal
\* arrives in the runs that are followed by another run
LiveNext ==
    \/ AgentStep
    \/ restarts < MaxRestarts /\ Signal

\* the runs of one host, the one with the plain name
LiveInit == Init /\ machine_name = <<"A">>

LiveSpec ==
    /\ LiveInit
    /\ [][LiveNext]_vars
    /\ WF_vars(AgentStep)
    /\ SF_vars(SendEventsOk)
    /\ SF_vars(TickFetchOk)

(***************************************************************************)
(* Function-level runs: the arguments are drawn in the initial state and   *)
(* one step applies the function.  The agent's variables stay as           *)
(* constructed.                                                            *)
(***************************************************************************)
\* largest sequence number handed to criar_id_unico
MaxIdArg == 12

\* host fields of fetched events: empty (or null), plain, holding the
\* separator, ending in a digit
IdHosts == { EmptyString, <<"A">>, <<"A", "_", "1">>, <<"A", "1">> }

InitIdentity ==
    /\ AgentInit
    /\ call_args \in [ fn : { "criar_id_unico" }, h1 : IdHosts, s1 : 0..MaxIdArg,
                       h2 : IdHosts, s2 : 0..MaxIdArg ]
    /\ call_ret = NoCall

CallIdentity ==
    /\ call_args.fn = "criar_id_unico"
    /\ call_ret = NoCall
    /\ call_ret' = [ fn  |-> "criar_id_unico",
                     id1 |-> criar_id_unico(call_args.s1, call_args.h1, machine_name),
                     id2 |-> criar_id_unico(call_args.s2, call_args.h2, machine_name) ]
    /\ UNCHANGED << agentVars, call_args >>

IdentitySpec == InitIdentity /\ [][CallIdentity]_vars

\* the lists handed to send_events: empty, one record, two records
SenderBatches ==
    { << >>, << [machine |-> <<"A">>] >>, << [machine |-> <<"A">>], [machine |-> <<"A">>] >> }

InitSender ==
    /\ AgentInit
    /\ call_args \in [ fn : { "send_events" }, events : SenderBatches, resps : ResponseSeqs ]
    /\ call_ret = NoCall

CallSendEvents ==
    /\ call_args.fn = "send_events"
    /\ call_ret = NoCall
    /\ LET r == send_events(call_args.events, call_args.resps)
       IN  call_ret' = [ fn |-> "send_events", result |-> r.result,
                         requests |-> r.requests, sleeps |-> r.sleeps ]
    /\ UNCHANGED << agentVars, call_args >>

SenderSpec == InitSender /\ [][CallSendEvents]_vars

\* numbers a page pattern of the branch can hold, and a generic pattern
SpecificValues == { 0, 1, MaxPages + 1, Overlong }

GenericValues == { 0, MaxPages, Overlong }

PatternResults(V) == { << >> } \cup { << v >> : v \in V }

\* the messages handed to extrair_dados_evento
ExtractMessages ==
    NonTextMessages \cup
    { m \in [ kind : { "text" }, lang : { "pt", "en" },
              p : [ 1..4 -> PatternResults(SpecificValues) ],
              g : [ 1..4 -> PatternResults(GenericValues) ] ] :
        m.lang = "pt" => m.p[4] = << >> }

InitExtract ==
    /\ AgentInit
    /\ call_args \in [ fn : { "extrair_dados_evento" }, m : ExtractMessages ]
    /\ call_ret = NoCall

CallExtract ==
    /\ call_args.fn = "extrair_dados_evento"
    /\ call_ret = NoCall
    /\ LET r == ExtractMessage(call_args.m)
       IN  call_ret' = [ fn |-> "extrair_dados_evento", returned |-> r.returned,
                         pages |-> r.pages ]
    /\ UNCHANGED << agentVars, call_args >>

ExtractSpec == InitExtract /\ [][CallExtract]_vars

\* largest sequence number of the identity sets handed to the compaction
MaxStoreSeq == 3

\* the hosts whose events the identity set holds
StoreHosts == HostNames \cup { <<"B">> }

\* (host, sequence) pairs of delivered events
StorePairs == [ host : StoreHosts, seq : 1..MaxStoreSeq ]

\* event 11 of the plain host: split at the first '_', its identity and the
\* identity of event 1 of the host "A_1" fall into one group with one number
TiePair == [ host |-> <<"A">>, seq |-> 11 ]

\* the pairs handed to a single save
SavePairs == StorePairs \cup { TiePair }

\* the identities of a set of pairs
IdentitiesOf(pairs) == { criar_id_unico(pr.seq, pr.host, pr.host) : pr \in pairs }

InitCompact ==
    /\ AgentInit
    /\ call_args \in [ fn : { "salvar_eventos_processados" }, pairs : SUBSET SavePairs ]
    /\ call_ret = NoCall

\* salvar_eventos_processados with self.eventos_processados holding the
\* identities of the pairs: the set it leaves and writes
CallCompact ==
    /\ call_args.fn = "salvar_eventos_processados"
    /\ call_ret = NoCall
    /\ \E kept \in CompactOnSave(IdentitiesOf(call_args.pairs)) :
        call_ret' = [ fn |-> "salvar_eventos_processados", ids |-> kept ]
    /\ UNCHANGED << agentVars, call_args >>

CompactSpec == InitCompact /\ [][CallCompact]_vars

(***************************************************************************)
(* salvar_eventos_processados with a write that can fail.                  *)
(***************************************************************************)
InitPersist ==
    /\ AgentInit
    /\ call_args \in [ fn : { "persist" }, pairs : SUBSET SavePairs,
                       highest : 0..MaxStoreSeq, write_ok : BOOLEAN ]
    /\ call_ret = NoCall

\* one call with self.eventos_processados holding the identities of the
\* pairs: the identity set and the mark after the call, what the caller sees
CallPersist ==
    /\ call_args.fn = "persist"
    /\ call_ret = NoCall
    /\ \E r \in salvar_eventos_processados(IdentitiesOf(call_args.pairs),
                                           call_args.highest, call_args.write_ok) :
        call_ret' = [ fn |-> "persist", ids |-> r.ids, highest |-> r.highest,
                      written |-> r.written, raised |-> r.raised ]
    /\ UNCHANGED << agentVars, call_args >>

PersistSpec == InitPersist /\ [][CallPersist]_vars

(***************************************************************************)
(* send_events_batch, applied to any list, batch size and collector.       *)
(***************************************************************************)
MaxBatchList == 3

MaxBatchSize == 3

\* the records of the list, two that differ after record_id is removed
BatchItems == { [record_id |-> 1, machine |-> <<"A">>], [record_id |-> 1, machine |-> <<"B">>] }

\* the collector's answers to the requests of one batch
BatchResponses == { q \in ResponseSeqs : \A i \in 1..Len(q) : q[i] \in { "200_json", "http_error" } }

\* for i in range(i, total_events, size): batch = events_to_send[i:i + size],
\* send_events(batch), failed_batches.append(i) when it returns False;
\* resps[k] answers the requests of the k-th batch
RECURSIVE BatchLoop(_, _, _, _)
BatchLoop(events_to_send, i, size, resps) ==
    IF i >= Len(events_to_send)
    THEN [ batches |-> << >>, failed |-> << >>, requests |-> << >> ]
    ELSE LET batch == BatchAt(events_to_send, i, size)
             r     == send_events(batch, resps[(i \div size) + 1])
             rest  == BatchLoop(events_to_send, i + size, size, resps)
         IN  [ batches  |-> << batch >> \o rest.batches,
               failed   |-> (IF r.result THEN << >> ELSE << i >>) \o rest.failed,
               requests |-> << r.requests >> \o rest.requests ]

\* send_events_batch(events) with self.batch_size = size: the value
\* returned, the batches handed to send_events, the requests posted for each
send_events_batch(events, size, resps) ==
    IF events = << >>
    THEN [ result |-> TRUE, batches |-> << >>, requests |-> << >> ]
    ELSE LET l == BatchLoop(StripAll(events), 0, size, resps)
         IN  [ result |-> BatchResult(l.failed), batches |-> l.batches,
               requests |-> l.requests ]

InitBatch ==
    /\ AgentInit
    /\ call_args \in [ fn : { "send_events_batch" },
                       events : SeqsUpTo(BatchItems, MaxBatchList),
                       size : 1..MaxBatchSize,
                       resps : [ 1..MaxBatchList -> BatchResponses ] ]
    /\ call_ret = NoCall

CallSendEventsBatch ==
    /\ call_args.fn = "send_events_batch"
    /\ call_ret = NoCall
    /\ LET r == send_events_batch(call_args.events, call_args.size, call_args.resps)
       IN  call_ret' = [ fn |-> "send_events_batch", result |-> r.result,
                         batches |-> r.batches, requests |-> r.requests ]
    /\ UNCHANGED << agentVars, call_args >>

BatchSpec == InitBatch /\ [][CallSendEventsBatch]_vars

(***************************************************************************)
(* The else branch of a tick with the thresholds of the source, applied to *)
(* buffers around the two thresholds.                                      *)
(***************************************************************************)
\* the longest buffer handed to the branch
MaxCutLen == 1002

\* lengths at zero, around the kept 500 and around the limit 1000
CutLens ==
    { n \in 0..MaxCutLen :
        \/ n <= 2
        \/ n >= SourceBufferKeep - 1 /\ n <= SourceBufferKeep + 1
        \/ n >= SourceBufferLimit - 1 }

\* a buffer of n records, no two equal: sequence numbers rising (the order
\* in which ticks append them), falling, or rising with the host alternating
CutBuffer(n, order) ==
    [ i \in 1..n |->
        [ record_id |-> IF order = "falling" THEN n + 1 - i ELSE i,
          machine   |-> IF order = "hosts" /\ i % 2 = 0 THEN <<"B">> ELSE <<"A">> ] ]

CutBuffers == { CutBuffer(n, order) : n \in CutLens, order \in { "rising", "falling", "hosts" } }

InitCut ==
    /\ AgentInit
    /\ call_args \in [ fn : { "failed_delivery" },
                       buffer : CutBuffers,
                       highest : 0..MaxRecordId,
                       file : { NoFile, FileData({ criar_id_unico(1, <<"A">>, <<"A">>) }, 1) } ]
    /\ call_ret = NoCall

CallFailedDelivery ==
    /\ call_args.fn = "failed_delivery"
    /\ call_ret = NoCall
    /\ LET r == FailedDelivery(call_args.buffer, call_args.highest, call_args.file,
                               SourceBufferLimit, SourceBufferKeep)
       IN  call_ret' = [ fn |-> "failed_delivery", buffer |-> r.buffer,
                         highest |-> r.highest, file |-> r.file ]
    /\ UNCHANGED << agentVars, call_args >>

CutSpec == InitCut /\ [][CallFailedDelivery]_vars

(***************************************************************************)
(* A save, later deliveries and a second save, then the next run: the load *)
(* of the file, the filter of the catch-up pass and the filter of a tick   *)
(* over the events of the first save, which the source still holds.        *)
(***************************************************************************)
MaxLater == 3

\* the raw event of a (host, sequence) pair
PairEvent(pr) ==
    [ RecordId |-> pr.seq, MachineName |-> pr.host,
      Message |-> [none |-> FALSE, text |-> <<"d">>] ]

\* the events of a set of pairs as the list a fetch returns
RECURSIVE PairEvents(_)
PairEvents(pairs) ==
    IF pairs = {} THEN << >>
    ELSE LET pr == CHOOSE x \in pairs : TRUE
         IN  << PairEvent(pr) >> \o PairEvents(pairs \ { pr })

\* the (host, sequence) pairs of a list of events or records
PairsOfEvents(raw) == { [host |-> raw[i].MachineName, seq |-> raw[i].RecordId] : i \in 1..Len(raw) }

PairsOfRecords(q) == { [host |-> q[i].machine, seq |-> q[i].record_id] : i \in 1..Len(q) }

InitRerun ==
    /\ AgentInit
    /\ call_args \in [ fn : { "rerun" }, first : SUBSET StorePairs,
                       later : { T \in SUBSET StorePairs : Cardinality(T) <= MaxLater } ]
    /\ call_ret = NoCall

CallRerun ==
    /\ call_args.fn = "rerun"
    /\ call_ret = NoCall
    /\ \E saved1 \in CompactOnSave(IdentitiesOf(call_args.first)) :
        \E saved2 \in CompactOnSave(saved1 \cup IdentitiesOf(call_args.later)) :
            LET loaded  == ConvertEntries({ StringEntry(id) : id \in saved2 }, machine_name)
                highest == InitHighest(loaded, machine_name)
                raw     == PairEvents(call_args.first)
            IN  call_ret' =
                  [ fn |-> "rerun", persisted |-> saved1, loaded |-> loaded,
                    catchup |-> PairsOfEvents(NaoProcessados(raw, loaded, machine_name)),
                    tick |-> PairsOfRecords(FilterNew(raw, loaded, highest,
                                                      machine_name).novos) ]
    /\ UNCHANGED << agentVars, call_args >>

RerunSpec == InitRerun /\ [][CallRerun]_vars

(***************************************************************************)
(* Save, load, save again and load again, by the same host.                *)
(***************************************************************************)
\* json.dump of list(self.eventos_processados), then json.load: every
\* identity is a JSON string entry
WrittenEntries(f) == { StringEntry(id) : id \in carregar_eventos_processados(f) }

InitRoundTrip ==
    /\ AgentInit
    /\ call_args \in [ fn : { "roundtrip" }, pairs : SUBSET SavePairs,
                       highest : 0..MaxStoreSeq ]
    /\ call_ret = NoCall

CallRoundTrip ==
    /\ call_args.fn = "roundtrip"
    /\ call_ret = NoCall
    /\ \E memory \in CompactOnSave(IdentitiesOf(call_args.pairs)) :
        LET written == FileData(memory, call_args.highest)
            loaded  == ConvertEntries(WrittenEntries(written), machine_name)
        IN  \E kept \in CompactOnSave(loaded) :
                LET again    == FileData(kept, call_args.highest)
                    reloaded == ConvertEntries(WrittenEntries(again), machine_name)
                IN  call_ret' = [ fn |-> "roundtrip", memory |-> memory,
                                  loaded |-> loaded, reloaded |-> reloaded ]
    /\ UNCHANGED << agentVars, call_args >>

RoundTripSpec == InitRoundTrip /\ [][CallRoundTrip]_vars

\* largest sequence number in the state files handed to the loader
MaxLoadSeq == 2

\* the entries of a state file: legacy numbers, and the identities of
\* (host, sequence) pairs
LoadPairs == [ host : HostNames, seq : 1..MaxLoadSeq ]

FileEntries(legacy, pairs) ==
    { LegacyEntry(n) : n \in legacy } \cup { StringEntry(id) : id \in IdentitiesOf(pairs) }

InitLoad ==
    /\ AgentInit
    /\ call_args \in [ fn : { "carregar_eventos_processados" },
                       legacy : SUBSET (1..MaxLoadSeq), pairs : SUBSET LoadPairs ]
    /\ call_ret = NoCall

\* PrintMonitor.__init__ on a host whose state file holds the entries: the
\* identity set loaded and the mark recomputed from it
CallLoad ==
    /\ call_args.fn = "carregar_eventos_processados"
    /\ call_ret = NoCall
    /\ LET ids == ConvertEntries(FileEntries(call_args.legacy, call_args.pairs),
                                 machine_name)
       IN  call_ret' = [ fn |-> "carregar_eventos_processados", ids |-> ids,
                         highest |-> InitHighest(ids, machine_name) ]
    /\ UNCHANGED << agentVars, call_args >>

LoadSpec == InitLoad /\ [][CallLoad]_vars

(***************************************************************************)
(* The filter of one tick, applied to any fetch, identity set and mark.    *)
(***************************************************************************)
\* the identities the set can hold when a tick starts
FilterIdentities ==
    { criar_id_unico(n, h, h) : n \in (1..MaxRecordId) \cup { NoneId }, h \in HostNames }

InitFilter ==
    /\ AgentInit
    /\ call_args \in [ fn : { "filter" }, raw : FetchResults,
                       seen : SUBSET FilterIdentities, highest : 0..MaxRecordId ]
    /\ call_ret = NoCall

\* the loop over eventos_raw of one tick (agente.py:631-645): the new events,
\* the identity set after the loop, whether the loop raised
CallFilter ==
    /\ call_args.fn = "filter"
    /\ call_ret = NoCall
    /\ LET r == FilterNew(call_args.raw, call_args.seen, call_args.highest, machine_name)
       IN  call_ret' = [ fn |-> "filter", novos |-> r.novos, seen |-> r.seen,
                         error |-> r.error ]
    /\ UNCHANGED << agentVars, call_args >>

FilterSpec == InitFilter /\ [][CallFilter]_vars

(***************************************************************************)
(* Vocabulary of the properties.                                           *)
(***************************************************************************)
\* the identity of a canonical record
RecordIdentity(r) == criar_id_unico(r.record_id, r.machine, machine_name)

BufferSet == SeqToSet(eventos_buffer)

\* buffered and not part of any call send_events reported successful
Unconfirmed(r) == r \in BufferSet /\ r \notin delivered

\* the process is inside processar_todos_eventos, or about to call it
InCatchUp ==
    \/ pc = "start" /\ process_all_on_start
    \/ pc \in { "send", "sent" } /\ snd.ret = "cu"

\* the step that ends a pass none of whose batches failed
PassSucceeds ==
    /\ pc = "sent"
    /\ snd.ret = "cu"
    /\ send_result
    /\ cu.failed = << >>
    /\ cu.i + batch_size >= Len(cu.events)

(***************************************************************************)
(* C1.  Every identity in the state file belongs to an event of a          *)
(* delivery the Sender reported successful; in particular, once the        *)
(* process has stopped after a failed delivery, the file holds no identity *)
(* of a record that is still buffered and unconfirmed.                     *)
(***************************************************************************)
C1_NoUnconfirmedPersisted ==
    pc = "stopped" =>
        \A r \in BufferSet : Unconfirmed(r) => RecordIdentity(r) \notin file.processed_ids

(***************************************************************************)
(* C2.  A catch-up pass with a failed batch leaves the identity set, the   *)
(* high-water mark and the state file as they were: inside the pass, only  *)
(* the step that ends a pass without failed batch changes any of them.     *)
(***************************************************************************)
C2_FailedPassMarksNothing ==
    [][ (InCatchUp /\ ~PassSucceeds) =>
            UNCHANGED << eventos_processados, highest_record_id, file >> ]_vars

\* a first-run pass has returned in which one batch was delivered and
\* another failed: nothing is marked, nothing is saved
C2_Witness ==
    /\ pc = "poll"
    /\ restarts = 0
    /\ delivered # {}
    /\ eventos_processados = {}
    /\ highest_record_id = 0
    /\ file = NoFile

(***************************************************************************)
(* C3.  At-least-once: a record accepted into the buffer is eventually     *)
(* part of a delivery reported successful, or was cut by the overflow      *)
(* rule.  (A new run that starts without the record's identity in its      *)
(* identity set also counts here: its catch-up pass takes the event as     *)
(* not yet processed.)                                                     *)
(***************************************************************************)
\* the buffer holds records of the local host only
LocalRecord(n) == [ record_id |-> n, machine |-> machine_name ]

Recoverable(r) == pc = "start" /\ RecordIdentity(r) \notin eventos_processados

C3_AtLeastOnce ==
    \A n \in 1..MaxRecordId :
        (LocalRecord(n) \in BufferSet)
            ~> \/ LocalRecord(n) \in delivered
               \/ LocalRecord(n) \in dropped
               \/ Recoverable(LocalRecord(n))

(***************************************************************************)
(* C4.  Compaction never removes the identity of a record that is          *)
(* buffered and not yet confirmed delivered: such a record's identity is   *)
(* in the identity set in every state.                                     *)
(***************************************************************************)
C4_PendingNeverCompacted ==
    \A r \in BufferSet : Unconfirmed(r) => RecordIdentity(r) \in eventos_processados

(***************************************************************************)
(* C5.  Within one process run the high-water mark never decreases: every  *)
(* step other than the start of the next run leaves it equal or larger.    *)
(***************************************************************************)
C5_MarkMonotone ==
    [][ pc # "stopped" => highest_record_id' >= highest_record_id ]_vars

\* a second run in which a tick's delivery has raised the mark to the
\* largest local sequence number, after a tick that failed and cut the buffer
C5_Witness ==
    /\ restarts = 1
    /\ pc = "poll"
    /\ highest_record_id = MaxRecordId
    /\ file.highest_id_this_machine = MaxRecordId
    /\ dropped # {}
    /\ \A n \in 1..MaxRecordId : [record_id |-> n, machine |-> machine_name] \in delivered

(***************************************************************************)
(* C6.  The mark is advanced only by confirmed deliveries of local events: *)
(* a mark n > 0 is the sequence number of a local-host record of a         *)
(* delivery reported successful.                                           *)
(***************************************************************************)
C6_MarkIsDelivered ==
    highest_record_id > 0 =>
        \E r \in delivered : r.machine = machine_name /\ r.record_id = highest_record_id

(***************************************************************************)
(* C7.  The buffer, and so the request of a tick or of the drain, holds at *)
(* most one record per local sequence number.                              *)
(***************************************************************************)
NoDuplicate(q) ==
    \A i, j \in 1..Len(q) : q[i].record_id = q[j].record_id => i = j

C7_NoDuplicateInBuffer ==
    /\ NoDuplicate(eventos_buffer)
    /\ snd.ret \in { "tick", "drain" } => NoDuplicate(snd.src) /\ Len(snd.events) = Len(snd.src)

\* a tick delivers a buffer that holds a record kept from an earlier failed
\* tick: the overflow rule has cut the buffer in this run
C7_Witness ==
    /\ pc = "sent"
    /\ snd.ret = "tick"
    /\ send_result
    /\ restarts = 0
    /\ dropped # {}
    /\ eventos_buffer # << >>

(***************************************************************************)
(* C8.  criar_id_unico is injective over the (host, sequence) pairs of     *)
(* fetched events, an empty host field included.                           *)
(***************************************************************************)
C8_IdentityInjective ==
    call_ret.fn = "criar_id_unico" =>
        (call_ret.id1 = call_ret.id2 =>
            call_args.h1 = call_args.h2 /\ call_args.s1 = call_args.s2)

\* C8 as amended: injective over the pairs whose host is not empty (names
\* holding '_' included); an empty host is encoded as the local host
C8_IdentityInjectiveNonEmptyHost ==
    call_ret.fn = "criar_id_unico" =>
        /\ (call_args.h1 # EmptyString /\ call_args.h2 # EmptyString) =>
              (call_ret.id1 = call_ret.id2 =>
                  call_args.h1 = call_args.h2 /\ call_args.s1 = call_args.s2)
        /\ (call_args.h1 = EmptyString /\ call_args.h2 = machine_name
                /\ call_args.s1 = call_args.s2) => call_ret.id1 = call_ret.id2

\* two pairs that only the separator keeps apart: ("A", 12) and ("A1", 2)
C8_Witness ==
    /\ call_ret.fn = "criar_id_unico"
    /\ call_args.h1 = <<"A">>
    /\ call_args.s1 = 12
    /\ call_args.h2 = <<"A", "1">>
    /\ call_args.s2 = 2
    /\ call_ret.id1 # call_ret.id2

(***************************************************************************)
(* C9.  send_events of a non-empty batch returns success exactly when one  *)
(* of its requests received status 200, whatever the body, and posts no    *)
(* request after one that received 200.                                    *)
(***************************************************************************)
Is200(resp) == resp \in { "200_json", "200_other" }

C9_SuccessIffStatus200 ==
    (call_ret.fn = "send_events" /\ call_args.events # << >>) =>
        /\ call_ret.result <=> \E i \in 1..call_ret.requests : Is200(call_args.resps[i])
        /\ \A i \in 1..(call_ret.requests - 1) : ~Is200(call_args.resps[i])

(***************************************************************************)
(* C10.  send_events of a non-empty batch posts between 1 and max_retries  *)
(* requests, returns failure only after max_retries failed requests, and   *)
(* sleeps after every failed request except the last of the budget.        *)
(***************************************************************************)
C10_BoundedRetries ==
    (call_ret.fn = "send_events" /\ call_args.events # << >>) =>
        /\ call_ret.requests >= 1
        /\ call_ret.requests <= max_retries
        /\ ~call_ret.result =>
              /\ call_ret.requests = max_retries
              /\ \A i \in 1..max_retries : call_args.resps[i] # "200_json"
        /\ call_ret.result =>
              /\ call_args.resps[call_ret.requests] = "200_json"
              /\ call_ret.sleeps = call_ret.requests - 1
        /\ ~call_ret.result => call_ret.sleeps = max_retries - 1

\* a call that used up its budget
C10_Witness ==
    /\ call_ret.fn = "send_events"
    /\ call_args.events # << >>
    /\ ~call_ret.result
    /\ call_ret.requests = max_retries
    /\ call_ret.sleeps = max_retries - 1

(***************************************************************************)
(* C11.  Every request to the collector, of the catch-up pass, of a tick   *)
(* and of the drain, carries at most batch_size events.                    *)
(***************************************************************************)
C11_RequestWithinBatchSize ==
    pc = "send" => Len(snd.events) <= batch_size

(***************************************************************************)
(* C16.  The Extractor returns a record for every raw event, also for one  *)
(* whose message is missing, null or matches no pattern.                   *)
(***************************************************************************)
C16_ExtractionNeverDrops ==
    call_ret.fn = "extrair_dados_evento" => call_ret.returned

\* the page patterns of the branch a message is searched with
Consulted(m) == IF m.lang = "pt" THEN 1..3 ELSE 1..4

\* no pattern holds a number in range
NoCandidateInRange(m) ==
    /\ \A i \in Consulted(m) : m.p[i] # << >> => ~PagesInRange(m.p[i][1])
    /\ \A i \in 1..4 : m.g[i] # << >> => ~PagesInRange(m.g[i][1])

(***************************************************************************)
(* C17.  Every record the Extractor returns has 1 <= pages <= 10000, and   *)
(* a text none of whose page patterns holds a number in range (no number,  *)
(* 0, or a number above 10000 of any length) yields a record with          *)
(* pages = 1.                                                              *)
(***************************************************************************)
C17_PagesInRange ==
    call_ret.fn = "extrair_dados_evento" =>
        /\ call_ret.returned => PagesInRange(call_ret.pages)
        /\ (call_args.m.kind = "text" /\ NoCandidateInRange(call_args.m)) =>
              (call_ret.returned /\ call_ret.pages = 1)

\* the pairs of host h in a set of pairs, and the KeepPerMachine of them
\* with the largest sequence numbers
PairsOfHost(pairs, h) == { pr \in pairs : pr.host = h }

NewestOfHost(pairs, h) ==
    { pr \in PairsOfHost(pairs, h) :
        Cardinality({ o \in PairsOfHost(pairs, h) : o.seq > pr.seq }) < KeepPerMachine }

(***************************************************************************)
(* C12.  Persist with more identities than the limit leaves, for every     *)
(* host, exactly the host's identities with the largest sequence numbers,  *)
(* at most KeepPerMachine of them; the host is the one of the event.       *)
(***************************************************************************)
C12_CompactionPerHost ==
    (/\ call_ret.fn = "salvar_eventos_processados"
     /\ Cardinality(call_args.pairs) > PersistLimit) =>
        \A h \in StoreHosts :
            { pr \in PairsOfHost(call_args.pairs, h) : IdentitiesOf({pr}) \subseteq call_ret.ids }
                = NewestOfHost(call_args.pairs, h)

(***************************************************************************)
(* C13.  Load at startup: a legacy number n becomes the identity of        *)
(* (local host, n), a string entry is kept, and the recomputed mark is the *)
(* largest sequence number among the loaded identities of the local host   *)
(* (0 without any), whatever other hosts' names start with and also for a  *)
(* local host name holding '_'.                                            *)
(***************************************************************************)
C13_LoadAndMark ==
    call_ret.fn = "carregar_eventos_processados" =>
        /\ call_ret.ids =
              { criar_id_unico(n, machine_name, machine_name) : n \in call_args.legacy }
                  \cup IdentitiesOf(call_args.pairs)
        /\ call_ret.highest =
              SetMax(call_args.legacy \cup
                     { pr.seq : pr \in PairsOfHost(call_args.pairs, machine_name) })

(***************************************************************************)
(* C14.  Draining: when the shutdown signal has arrived at any point of    *)
(* the polling loop (fetch, delivery, sleep, error-backoff sleep) and the  *)
(* process has stopped, the final delivery of a non-empty buffer was       *)
(* attempted and the state file was written.                               *)
(***************************************************************************)
C14_SignalInLoopDrains ==
    (pc = "stopped" /\ stop.sig \in { "loop", "backoff" }) =>
        /\ eventos_buffer # << >> => stop.attempted
        /\ stop.saved

\* the process is inside the polling loop
InLoop == pc \in { "poll", "backoff" } \/ (pc \in { "send", "sent" } /\ snd.ret = "tick")

\* a step of a tick in which no signal arrives
TickStep ==
    /\ pc = "poll" \/ (pc = "sent" /\ snd.ret = "tick")
    /\ stop' = stop

\* the tick that ran last raised an exception into the loop: in the filter
\* loop, or in the end-of-tick compaction
Raised(faults) == faults \cap { "filter", "cache" } # {}

(***************************************************************************)
(* C15, as stated.  Every error inside a tick, a failed delivery and a     *)
(* failed write of the state file included, leads to the error backoff.    *)
(***************************************************************************)
C15_EveryErrorBacksOff ==
    [][ (TickStep /\ tick_faults' # {}) => pc' = "backoff" ]_vars

(***************************************************************************)
(* C15.  An error inside a tick never ends the polling loop, which is left *)
(* only by a step in which the shutdown signal arrives.  An exception      *)
(* raised inside a tick (by the filter loop on a fetched event, by the     *)
(* end-of-tick compaction) leads to the error backoff, an exception of the *)
(* filter loop with the buffer as it was, and the backoff is followed by a *)
(* further tick with the same buffer.  A failed delivery and a failed      *)
(* write of the state file raise nothing: the tick goes on, and ends with  *)
(* the normal sleep unless the compaction raises.  The failed write leaves *)
(* the state file as it was, or cut to an empty file.                      *)
(***************************************************************************)
C15_LoopSurvivesErrors ==
    [][ /\ (InLoop /\ ~InLoop') => stop'.sig # stop.sig
        /\ TickStep =>
              /\ Raised(tick_faults') => pc' = "backoff"
              /\ "filter" \in tick_faults' => eventos_buffer' = eventos_buffer
              /\ (tick_faults' # {} /\ ~Raised(tick_faults')) => pc' = "poll"
              /\ "save" \in tick_faults' =>
                    (pc = "sent" /\ send_result /\ file' \in { file, CutFile })
              /\ pc = "sent" => ("delivery" \in tick_faults' <=> ~send_result)
        /\ (pc = "backoff" /\ stop'.sig = stop.sig) =>
              (pc' = "poll" /\ eventos_buffer' = eventos_buffer) ]_vars

\* the error backoff of a tick that delivered its buffer, failed to write
\* the state file, went on, and raised in the end-of-tick compaction; the
\* file is the one of an earlier save
C15_Witness ==
    /\ pc = "backoff"
    /\ tick_faults = { "save", "cache" }
    /\ file.exists
    /\ file.processed_ids # {}
    /\ file.processed_ids # eventos_processados
    /\ eventos_buffer = << >>
    /\ stop.sig = "none"

(***************************************************************************)
(* C18.  After a tick whose delivery failed, a buffer of at most 1000      *)
(* records is the attempted one, same records in the same order, and a     *)
(* buffer of more than 1000 records is its last 500 records in their       *)
(* order; the mark and the state file are as before.                       *)
(***************************************************************************)
C18_FailedTickKeepsBuffer ==
    call_ret.fn = "failed_delivery" =>
        LET before == call_args.buffer
            after  == call_ret.buffer
        IN  /\ Len(before) <= 1000 => after = before
            /\ Len(before) > 1000 =>
                  /\ Len(after) = 500
                  /\ \A i \in 1..500 : after[i] = before[Len(before) - 500 + i]
            /\ call_ret.highest = call_args.highest
            /\ call_ret.file = call_args.file

\* a buffer of 1002 records with falling sequence numbers was cut: the
\* first record kept is the 503rd, the last is the newest
C18_Witness ==
    /\ call_ret.fn = "failed_delivery"
    /\ Len(call_args.buffer) = 1002
    /\ call_args.buffer[1].record_id = 1002
    /\ Len(call_ret.buffer) = 500
    /\ call_ret.buffer[1].record_id = 500
    /\ call_ret.buffer[500].record_id = 1
    /\ call_ret.file.exists

\* the largest record_id of a non-empty buffer
MaxRecordIdOf(q) == SetMax({ q[i].record_id : i \in 1..Len(q) })

(***************************************************************************)
(* C19.  A tick hands the whole buffer to the Sender; after a tick whose   *)
(* delivery succeeded the buffer is empty, the identity of every record    *)
(* that was in it is in the identity set, the mark is the maximum of its   *)
(* old value and the largest delivered sequence number, and the state file *)
(* holds these values (in a tick that no signal interrupts and whose write *)
(* of the file does not fail).                                             *)
(***************************************************************************)
C19_SuccessfulTick ==
    [][ /\ (pc' = "send" /\ snd'.ret = "tick") => snd'.src = eventos_buffer'
        /\ (pc = "poll" /\ pc' = "send") =>
              SubSeq(eventos_buffer', 1, Len(eventos_buffer)) = eventos_buffer
        /\ (pc = "sent" /\ snd.ret = "tick" /\ send_result /\ stop' = stop) =>
              /\ eventos_buffer' = << >>
              /\ \A r \in BufferSet : RecordIdentity(r) \in eventos_processados'
              /\ highest_record_id' = Max2(highest_record_id, MaxRecordIdOf(eventos_buffer))
              /\ "save" \notin tick_faults' =>
                    /\ file'.exists
                    /\ file'.processed_ids = eventos_processados'
                    /\ file'.highest_id_this_machine = highest_record_id' ]_vars

\* conditions (a), (b) and (c) of the tick filter for one fetched event
PassesFilter(ev, seen, highest, local) ==
    /\ EventIdentity(ev, local) \notin seen
    /\ ev.MachineName = local
    /\ ev.RecordId > highest

\* the fetched events, in order, that meet the three conditions when they
\* are examined, each one's identity pending from then on
RECURSIVE Passing(_, _, _, _)
Passing(raw, seen, highest, local) ==
    IF raw = << >> THEN << >>
    ELSE LET ev == Head(raw)
         IN  IF PassesFilter(ev, seen, highest, local)
             THEN << ev >> \o Passing(Tail(raw), seen \cup { EventIdentity(ev, local) },
                                      highest, local)
             ELSE Passing(Tail(raw), seen, highest, local)

\* every fetched event carries an integer sequence number
AllNumbered(raw) == \A i \in 1..Len(raw) : raw[i].RecordId # NoneId

(***************************************************************************)
(* C20.  Tick filter: of a fetch whose events all carry a sequence number, *)
(* the events appended to the buffer are exactly those whose identity is   *)
(* not in the identity set, whose host is the local host and whose         *)
(* sequence number is above the mark; the identities recorded as pending   *)
(* are exactly theirs.                                                     *)
(***************************************************************************)
C20_FilterIff ==
    (call_ret.fn = "filter" /\ AllNumbered(call_args.raw)) =>
        LET pass == Passing(call_args.raw, call_args.seen, call_args.highest, machine_name)
        IN  /\ ~call_ret.error
            /\ call_ret.novos =
                  [ i \in 1..Len(pass) |->
                      [record_id |-> pass[i].RecordId, machine |-> pass[i].MachineName] ]
            /\ call_ret.seen = call_args.seen \cup
                  { EventIdentity(pass[i], machine_name) : i \in 1..Len(pass) }

(***************************************************************************)
(* C21.  Start-up tests: when the event source test fails the process      *)
(* stops at once (in the return of main(), or by the signal before it),    *)
(* with no catch-up pass, no tick, no drain and the state file as it was;  *)
(* when it passes the process goes on to the monitor whatever the          *)
(* collector test returned, unless the signal arrives before the monitor   *)
(* runs; a process whose collector test failed is stopped only by the      *)
(* signal or by an error of the catch-up pass.                             *)
(***************************************************************************)
C21_StartupChecks ==
    /\ [](checks.powershell = "failed" =>
            /\ pc = "stopped"
            /\ delivered = {} /\ eventos_buffer = << >>
            /\ eventos_processados = {} /\ highest_record_id = 0
            /\ stop.sig \in { "none", "startup" }
            /\ ~stop.attempted /\ ~stop.saved)
    /\ [][ /\ (checks.powershell = "failed" \/ checks'.powershell = "failed") => file' = file
           /\ pc = "main" =>
              /\ checks'.powershell = "failed" => pc' = "stopped"
              /\ (checks'.powershell = "ok" /\ stop'.sig = "none") => pc' = "start" ]_vars
    /\ []((checks.connection = "failed" /\ pc = "stopped") => stop.sig # "none")

\* a tick's delivery attempt in a process whose collector test had failed,
\* with the catch-up pass enabled
C21_Witness ==
    /\ checks = [ powershell |-> "ok", connection |-> "failed" ]
    /\ process_all_on_start
    /\ pc = "sent"
    /\ snd.ret = "tick"

\* the phase of the agent the process is in
Phase ==
    CASE pc = "main" -> "Startup"
      [] pc = "start" -> IF process_all_on_start THEN "CatchUp" ELSE "Startup"
      [] pc \in { "send", "sent" } /\ snd.ret = "cu" -> "CatchUp"
      [] InLoop -> "SteadyPoll"
      [] pc = "drain" -> "Draining"
      [] pc \in { "send", "sent" } /\ snd.ret = "drain" -> "Draining"
      [] pc = "stopped" -> "Stopped"

\* the changes of phase the order Startup, CatchUp, Steady-Poll, Draining,
\* Stopped allows; the process may stop in Startup on a failed test
PhaseOrder ==
    { << "Startup", "CatchUp" >>, << "Startup", "SteadyPoll" >>, << "Startup", "Stopped" >>,
      << "CatchUp", "SteadyPoll" >>, << "SteadyPoll", "Draining" >>,
      << "Draining", "Stopped" >> }

(***************************************************************************)
(* C22.  The phases follow one another only in the order Startup, CatchUp, *)
(* Steady-Poll, Draining, Stopped: the catch-up pass is entered only from  *)
(* Startup with process_all_on_start enabled, and a running agent (in      *)
(* CatchUp or Steady-Poll) stops only through Draining.                    *)
(***************************************************************************)
C22_PhaseOrder ==
    [][ /\ Phase' # Phase => << Phase, Phase' >> \in PhaseOrder
        /\ (Phase' = "CatchUp" /\ Phase # "CatchUp") =>
              (Phase = "Startup" /\ process_all_on_start) ]_vars

(***************************************************************************)
(* C23.  A persist call whose write fails raises nothing to its caller and *)
(* leaves the in-memory identity set and mark exactly as they were before  *)
(* the call, whatever the size of the set.                                 *)
(***************************************************************************)
C23_FailedPersistKeepsMemory ==
    (call_ret.fn = "persist" /\ ~call_args.write_ok) =>
        /\ ~call_ret.raised
        /\ ~call_ret.written
        /\ call_ret.ids = IdentitiesOf(call_args.pairs)
        /\ call_ret.highest = call_args.highest

\* the event objects of the request being sent, of the buffer
HasRecordId(e) == "record_id" \in DOMAIN e

(***************************************************************************)
(* C24.  Wire format: no event object of a request (catch-up batch, tick   *)
(* or drain) holds the record_id field; the request of a tick or drain is  *)
(* the buffer with that field removed, and the records of the buffer keep  *)
(* their record_id.                                                        *)
(***************************************************************************)
C24_RecordIdStripped ==
    /\ pc \in { "send", "sent" } =>
          /\ \A i \in 1..Len(snd.events) : ~HasRecordId(snd.events[i])
          /\ Len(snd.events) = Len(snd.src)
          /\ \A i \in 1..Len(snd.src) :
                /\ HasRecordId(snd.src[i])
                /\ snd.events[i] = [ f \in DOMAIN snd.src[i] \ { "record_id" } |->
                                        snd.src[i][f] ]
    /\ (pc \in { "send", "sent" } /\ snd.ret \in { "tick", "drain" }) =>
          snd.src = eventos_buffer
    /\ \A i \in 1..Len(eventos_buffer) : HasRecordId(eventos_buffer[i])

\* the request of a drain, sent from a buffer of records with record_id
C24_Witness ==
    /\ pc = "send"
    /\ snd.ret = "drain"
    /\ snd.events # << >>
    /\ eventos_buffer # << >>

\* the identity is the one of a sequence number above the bound
SequenceAbove(id, bound) ==
    \E h \in HostNames, n \in 1..MaxRecordId : id = criar_id_unico(n, h, h) /\ n > bound

(***************************************************************************)
(* C25.  In-memory compaction: a tick that delivered or failed to deliver  *)
(* its buffer and ends with more than CacheLimit identities in memory has  *)
(* completed normally (the next step is a tick after the normal sleep) and *)
(* holds only identities whose sequence number is above the mark minus     *)
(* CacheWindow.                                                            *)
(***************************************************************************)
C25_CacheCompaction ==
    [][ (TickStep /\ pc = "sent" /\ Cardinality(eventos_processados') > CacheLimit) =>
            /\ pc' = "poll"
            /\ \A id \in eventos_processados' :
                  SequenceAbove(id, highest_record_id' - CacheWindow) ]_vars

(***************************************************************************)
(* C26.  A tick whose fetch and extraction raised nothing and whose        *)
(* delivery returned (with success or with failure) ends with the normal   *)
(* sleep and the next tick, never with the error backoff, whatever the     *)
(* size of the in-memory identity set (no signal arriving in the tick).    *)
(***************************************************************************)
C26_CleanTickSleepsNormally ==
    [][ (TickStep /\ pc = "sent") => pc' = "poll" ]_vars

(***************************************************************************)
(* C27.  The shutdown signal is acted on only between ticks: a delivery a  *)
(* tick has started runs to its result, and the loop is left for the drain *)
(* only from the sleep between two ticks.                                  *)
(***************************************************************************)
C27_SignalBetweenTicks ==
    [][ /\ (pc = "send" /\ snd.ret = "tick") => pc' = "sent"
        /\ (pc' = "drain" /\ pc # "drain") => pc = "poll" ]_vars

\* the requests a call with a fresh retry counter posts against the
\* answers q: up to the first accepted one, or the whole budget
FreshRequests(q) ==
    IF \E i \in 1..max_retries : q[i] = "200_json"
    THEN CHOOSE i \in 1..max_retries :
            q[i] = "200_json" /\ \A j \in 1..(i - 1) : q[j] # "200_json"
    ELSE max_retries

\* ceil(n / size)
BatchCount(n, size) == (n + size - 1) \div size

(***************************************************************************)
(* C28.  send_events_batch: every batch of the pass is attempted, each     *)
(* with the requests of a retry counter that starts from zero, also after  *)
(* an earlier batch failed; the pass succeeds if and only if every batch   *)
(* was accepted within its own budget; an empty list succeeds with no      *)
(* request.                                                                *)
(***************************************************************************)
C28_IndependentBatches ==
    call_ret.fn = "send_events_batch" =>
        LET n == BatchCount(Len(call_args.events), call_args.size)
        IN  /\ Len(call_ret.requests) = n
            /\ \A k \in 1..n : call_ret.requests[k] = FreshRequests(call_args.resps[k])
            /\ call_ret.result <=>
                  \A k \in 1..n : \E i \in 1..max_retries : call_args.resps[k][i] = "200_json"
            /\ call_args.events = << >> => (call_ret.result /\ call_ret.requests = << >>)

\* a pass whose first batch used up its budget and whose next batch was
\* accepted at its first request
C28_Witness ==
    /\ call_ret.fn = "send_events_batch"
    /\ Len(call_ret.requests) >= 2
    /\ call_ret.requests[1] = max_retries
    /\ \A i \in 1..max_retries : call_args.resps[1][i] # "200_json"
    /\ call_ret.requests[2] = 1
    /\ ~call_ret.result

\* q[1] \o q[2] \o ...
RECURSIVE Concat(_)
Concat(q) == IF q = << >> THEN << >> ELSE Head(q) \o Concat(Tail(q))

(***************************************************************************)
(* C29.  Batcher: the batches of a pass, concatenated in order, are the    *)
(* list that was given (without record_id); every batch but the last holds *)
(* exactly size records and the last holds between 1 and size.             *)
(***************************************************************************)
C29_BatchesPartitionList ==
    call_ret.fn = "send_events_batch" =>
        LET b == call_ret.batches
        IN  /\ Concat(b) = StripAll(call_args.events)
            /\ \A k \in 1..(Len(b) - 1) : Len(b[k]) = call_args.size
            /\ b # << >> => (Len(b[Len(b)]) >= 1 /\ Len(b[Len(b)]) <= call_args.size)

\* a list cut into a full batch and a shorter last one
C29_Witness ==
    /\ call_ret.fn = "send_events_batch"
    /\ call_args.size = 2
    /\ Len(call_args.events) = 3
    /\ Len(call_ret.batches) = 2
    /\ call_ret.batches[1] # call_ret.batches[2] \o call_ret.batches[2]

\* what the page patterns of a message hold, in the order of priority: the
\* patterns of the language branch, then the generic scan
PatternsInOrder(m) == [ i \in Consulted(m) |-> m.p[i] ] \o m.g

\* the number of the first pattern, from position i on, that holds a number
\* in range; 1 when there is none
RECURSIVE FirstInRange(_, _)
FirstInRange(q, i) ==
    IF i > Len(q) THEN 1
    ELSE IF q[i] # << >> /\ PagesInRange(q[i][1]) THEN q[i][1]
    ELSE FirstInRange(q, i + 1)

(***************************************************************************)
(* C30.  Page-count priority: the page count of a returned record is the   *)
(* number of the first pattern, in the order of the branch patterns and    *)
(* then the generic scan, that holds a number in [1, 10000]; an earlier    *)
(* in-range number, 1 included, is not overridden, and an earlier          *)
(* out-of-range number does not stop the later patterns.                   *)
(***************************************************************************)
C30_FirstInRangeWins ==
    (call_ret.fn = "extrair_dados_evento" /\ call_ret.returned) =>
        call_ret.pages = FirstInRange(PatternsInOrder(call_args.m), 1)

\* the identities of the records a catch-up pass hands to send_events_batch
PassIdentities == { RecordIdentity(cu.events[i]) : i \in 1..Len(cu.events) }

(***************************************************************************)
(* C31.  Every identity the last step of a successful catch-up pass adds   *)
(* to the identity set is the identity of a record that was in one of the  *)
(* batches of the pass; an event whose extraction gave no record is not    *)
(* marked.                                                                 *)
(***************************************************************************)
C31_CatchUpMarksOnlySent ==
    [][ PassSucceeds =>
            (eventos_processados' \ eventos_processados) \subseteq PassIdentities ]_vars

(***************************************************************************)
(* C32.  An event whose delivery was confirmed and whose identity was      *)
(* written to the state file is not sent again by a later run that loads   *)
(* the file, neither by its catch-up pass nor by a tick, also after later  *)
(* saves have compacted the file and while the source still holds the      *)
(* event.                                                                  *)
(***************************************************************************)
C32_NoRetransmission ==
    call_ret.fn = "rerun" =>
        \A pr \in call_args.first :
            IdentitiesOf({ pr }) \subseteq call_ret.persisted =>
                (pr \notin call_ret.catchup /\ pr \notin call_ret.tick)

\* the local event with sequence number n is recorded as pending: its
\* identity is in the identity set and n is above the mark
Pending(n) ==
    /\ criar_id_unico(n, machine_name, machine_name) \in eventos_processados
    /\ n > highest_record_id

(***************************************************************************)
(* C33.  Between two ticks, after the normal sleep as well as in the error *)
(* backoff, every local event recorded as pending has its record in the    *)
(* buffer, unless the overflow cut removed it.                             *)
(***************************************************************************)
C33_PendingIsBuffered ==
    pc \in { "poll", "backoff" } =>
        \A n \in 1..MaxRecordId :
            Pending(n) => (LocalRecord(n) \in BufferSet \/ LocalRecord(n) \in dropped)

(***************************************************************************)
(* C34.  The state file is consistent in itself: total_processed is the    *)
(* number of entries of processed_ids, and highest_id_this_machine is at   *)
(* least the sequence number of every identity of the local host that      *)
(* processed_ids lists.                                                    *)
(***************************************************************************)
C34_FileConsistent ==
    file.exists =>
        /\ file.total_processed = Cardinality(file.processed_ids)
        /\ \A n \in 1..MaxRecordId :
              criar_id_unico(n, machine_name, machine_name) \in file.processed_ids
                  => file.highest_id_this_machine >= n

(***************************************************************************)
(* C35.  For an identity set of at most PersistLimit identities, persist   *)
(* leaves the in-memory set as it was and a load of the written file by    *)
(* the same host returns the same set; a file of string entries that is    *)
(* loaded, saved and loaded again gives the set of the first load.         *)
(***************************************************************************)
C35_PersistLoadInverse ==
    call_ret.fn = "roundtrip" =>
        /\ Cardinality(IdentitiesOf(call_args.pairs)) <= PersistLimit =>
              /\ call_ret.memory = IdentitiesOf(call_args.pairs)
              /\ call_ret.loaded = IdentitiesOf(call_args.pairs)
        /\ call_ret.reloaded = call_ret.loaded

\* a set of exactly PersistLimit identities of one host, more than
\* KeepPerMachine of them, saved and loaded whole
C35_Witness ==
    /\ call_ret.fn = "roundtrip"
    /\ Cardinality(call_args.pairs) = PersistLimit
    /\ \A pr \in call_args.pairs : pr.host = <<"A">>
    /\ Cardinality(call_ret.loaded) = PersistLimit
    /\ PersistLimit > KeepPerMachine

(***************************************************************************)
(* C36.  No request of a catch-up pass holds an event whose identity was   *)
(* in the identity set when the pass started, and a pass that finds        *)
(* nothing new sends no request and leaves the identity set, the mark and  *)
(* the state file as they were.                                            *)
(***************************************************************************)
C36_CatchUpSkipsKnown ==
    [][ /\ (pc' = "send" /\ snd'.ret = "cu") =>
              /\ \A i \in 1..Len(cu'.nao) :
                    EventIdentity(cu'.nao[i], machine_name) \notin eventos_processados'
              /\ \A i \in 1..Len(snd'.src) :
                    RecordIdentity(snd'.src[i]) \notin eventos_processados'
        /\ (pc = "start" /\ pc' = "poll") =>
              /\ snd' = IdleSnd
              /\ UNCHANGED << eventos_processados, highest_record_id, file, delivered >> ]_vars

\* the catch-up pass of a second run sends a request while the identity
\* set loaded from the state file holds identities of delivered events
C36_Witness ==
    /\ pc = "send"
    /\ snd.ret = "cu"
    /\ restarts = 1
    /\ \E r \in delivered : RecordIdentity(r) \in eventos_processados
    /\ file.exists

(***************************************************************************)
(* C37.  Between two ticks the buffer holds at most BufferLimit records,   *)
(* whatever was fetched and whatever the deliveries returned, also after a *)
(* tick that fetched more new events than the limit while the collector    *)
(* did not accept them.                                                    *)
(***************************************************************************)
C37_BufferBounded ==
    pc \in { "poll", "backoff" } => Len(eventos_buffer) <= BufferLimit

\* after a tick that buffered more than BufferLimit new events and whose
\* delivery failed, with nothing ever delivered: the buffer was cut
C37_Witness ==
    /\ pc = "poll"
    /\ delivered = {}
    /\ Cardinality(dropped) >= 1
    /\ Len(eventos_buffer) = BufferKeep
    /\ Cardinality(dropped) + Len(eventos_buffer) > BufferLimit

====
